---- MODULE Spec2Model ----
(***************************************************************************)
(* Verification model of the NEST simulation kernel core:                  *)
(*   - the time-slice scheduler of Network (simulate / resume / update /   *)
(*     advance_time_ / gather_events_ / deliver_events_ / moduli tables),  *)
(*   - the DelayChecker,                                                   *)
(*   - the SourceTable: get_next_target_data, clean, reserve,              *)
(*     compute_buffer_pos_for_unique_secondary_sources,                    *)
(*   - Network::set_status, the bulk and the random connect functions,     *)
(*   - the ModelManager: copy_model, register_synapse_prototype, init,     *)
(*   - the packed fields of SpikeData and Target, and sort.h.              *)
(* Each subsystem has its own specification over its own variables; the    *)
(* variables of the other subsystems stay unchanged.                       *)
(***************************************************************************)
EXTENDS Integers, Sequences, FiniteSets, TLC

(***************************************************************************)
(* Bounds of the model                                                     *)
(***************************************************************************)
\* largest delay (in steps) a connection of the scheduler model may have
MaxDelaySteps == 3
\* largest min_delay used by the scheduler model is MaxDelaySteps - 1
\* total number of steps simulated over all simulate calls
MaxTotalSteps == 5
\* longest duration (in steps) of one simulate call
MaxSimSteps == 3
\* total number of spikes emitted over a run
MaxSpikes == 2
\* number of slices in the spike exchange model
MaxSlices == 2
\* largest number of entries of one (tid, syn_index) vector of the SourceTable
MaxVecLen == 3
\* largest number of entries of the SourceTable
MaxSources == 3
\* largest number of disabled entries of the SourceTable
MaxDisabled == 1
\* number of connections created in the DelayChecker model
MaxConnections == 2
\* largest number of nodes, the root included
MaxNodes == 2
\* most nodes named in one bulk connect
MaxTargets == 2
\* longest delay (in steps) of the packed-field model
MaxPackedDelay == 65
\* largest synapse id passed to SourceTable::reserve
MaxSynId == 64
\* longest vector passed to sort
MaxSortLen == 11
\* largest number of calls of get_next_target_data with an exhausted cursor
MaxFurtherCalls == 2
\* largest number of candidates of a random connect
MaxCandidates == 3
\* largest number n of connections a random connect is asked for
MaxDraws == 3
\* largest number of sources of one vector of secondary connections
MaxSecondarySources == 2
\* largest total event size the other processes report
MaxOtherCount == 4
\* layout of the scheduler model: one process, two threads
Threads == {0, 1}
\* the nodes with proxies (GID 0 is the root subnet)
NodeGids == {1, 2, 3}
NumThreads == Cardinality(Threads)
NumProcesses == Cardinality({0})
NumVPs == NumThreads * NumProcesses

\* Network::comm_marker_, the sentinel closing a lag group
comm_marker_ == 0

Min(a, b) == IF a < b THEN a ELSE b
Max(a, b) == IF a > b THEN a ELSE b

\* C++ vectors are 0-based: element i of vector v
At(v, i) == v[i + 1]
\* a vector of n copies of x
Fill(n, x) == [i \in 1..n |-> x]
\* std::vector::resize(n, x): truncate or pad with x
Resize(v, n, x) == [i \in 1..n |-> IF i <= Len(v) THEN v[i] ELSE x]

RECURSIVE SumSeq(_)
SumSeq(s) == IF s = <<>> THEN 0 ELSE Head(s) + SumSeq(Tail(s))

RECURSIVE Concat(_)
\* concatenation of a sequence of sequences
Concat(ss) == IF ss = <<>> THEN <<>> ELSE Head(ss) \o Concat(Tail(ss))

\* the elements of the finite set S of integers in increasing order
RECURSIVE SortedSeq(_)
SortedSeq(S) ==
  IF S = {} THEN <<>>
  ELSE LET m == CHOOSE x \in S : \A y \in S : x <= y
       IN <<m>> \o SortedSeq(S \ {m})

(***************************************************************************)
(* Layout: virtual processes                                               *)
(***************************************************************************)
\* vp of a node: gid mod V
suggest_vp(gid) == gid % NumVPs
\* process of a vp
get_process_id(vp) == vp % NumProcesses
\* thread of a vp
vp_to_thread(vp) == vp \div NumProcesses
\* the nodes thread t updates, in the order of nodes_vec[t]
nodes_vec(t) == SortedSeq({g \in NodeGids : vp_to_thread(suggest_vp(g)) = t})

VARIABLES
  \* ---- scheduler state of Network ----
  cm_min_delay,        \* connection_manager_.get_min_delay(), in steps
  cm_max_delay,        \* connection_manager_.get_max_delay(), in steps
  min_delay_, max_delay_,
  clock_, slice_, to_do_, from_step_, to_step_,
  terminate_, simulated_,
  moduli_, slice_moduli_,
  spike_register_,     \* [thread][lag] -> GIDs
  local_grid_spikes_, global_grid_spikes_, displacements_,
  send_buffer_size_,   \* of Communicator
  pc,                  \* position of each thread in update()
  ring,                \* ring buffer of the target node of each thread
  \* ---- history variables of the scheduler ----
  h_requested,         \* sum of the durations of the simulate calls so far
  h_midslice,          \* some simulate call has returned inside a slice
  h_upd,               \* per thread: absolute steps updated, in order
  h_dlv,               \* per thread: clock at each deliver_events_
  h_gath,              \* clock at each gather_events_ (slice origins)
  h_emit,              \* per thread: spikes sent in this slice, in order
  h_flight,            \* h_emit as taken by the last gather
  h_handed,            \* per thread: events handed to connections at last deliver
  h_read,              \* per thread: entries the last update read from ring
  h_nspikes,           \* number of spikes emitted so far
  \* ---- simulate calls: their ends by signal and by exception ----
  SLIsignalflag,       \* the signal raised by the user, 0 if none
  exceptions_raised,   \* update(): per thread the exception captured, 0 if none
  simulating_,
  sim_request,         \* the last simulate call: its duration, and whether
                       \* a signal ended the call before it with work left
  sim_outcome,         \* how the last simulate call ended
  h_phases,            \* what the last simulate call has executed so far
  \* ---- DelayChecker and the kernel state it consults ----
  dc_min_delay_,       \* DelayChecker::min_delay_, in steps
  dc_max_delay_,       \* DelayChecker::max_delay_, in steps
  user_set_delay_extrema_,
  connections,         \* the delays of the connections created so far
  has_been_simulated,  \* simulation_manager.has_been_simulated()
  sim_min_delay,       \* connection_builder_manager.get_min_delay()
  sim_max_delay,       \* connection_builder_manager.get_max_delay()
  dc_outcome,          \* how the last DelayChecker call ended
  dc_request,          \* the last call made and its arguments
  num_nodes,           \* node_manager.size(): the root and the nodes created
  \* ---- spike exchange between two processes ----
  x_min_delay,         \* min_delay_ of every rank
  x_clock,             \* clock_ of every rank
  x_register,          \* [rank][thread][lag]: spike_register_ of each rank
  x_local,             \* [rank]: local_grid_spikes_
  x_global,            \* [rank]: global_grid_spikes_
  x_displacements,     \* [rank]: displacements_
  x_send_buffer_size,  \* send buffer size of the Communicator
  x_pc,                \* "update" or "deliver"
  x_delivered,         \* [rank][thread]: deliver_events_ has run
  x_handed,            \* [rank][thread]: events handed to connections
  x_sent,              \* registers as they were at the last gather
  x_nspikes,           \* number of spikes sent so far
  \* ---- SourceTable and target-table construction on one rank ----
  sources_,            \* [tid][syn_index][lcid]: Source
  last_sorted_source_, \* [tid][syn_index]
  current_positions_,  \* [thread]: SourceTablePosition
  subsequent_targets,  \* [tid][syn_index][lcid]: flag of the connection
  target_data,         \* [thread]: the TargetData returned so far, in order
  build_done,          \* [thread]: get_next_target_data has returned false
  targets_,            \* [rank][tid][lid]: TargetTable of the source's rank
  target_table_built,  \* the TargetData have been communicated and added
  h_marked,            \* [tid][syn_index][lcid]: threads that set processed
  h_send,              \* the last send_5g call: where from, what it reached
  \* ---- the kernel as Network::set_status sees it ----
  k_size,              \* node_manager.size(): the root and the nodes created
  k_simulated,         \* get_simulated()
  k_num_connections,   \* connection_manager_.get_num_connections()
  k_clock,             \* clock_, in steps
  k_tics_per_ms,       \* time representation: tics per millisecond
  k_tics_per_step,     \* time representation: tics per step (the resolution)
  k_outcome,           \* how the last call ended
  k_request,           \* the last call made and its dictionary
  \* ---- bulk connect: divergent_connect and convergent_connect ----
  bulk_connections,    \* the connections created so far: <<source, target>>
  bulk_request,        \* the last bulk call and its arguments
  bulk_created,        \* the connections the last bulk call created
  bulk_warnings,       \* the number of warnings the last bulk call logged
  bulk_outcome,        \* how the last bulk call ended
  \* ---- SourceTable::clean ----
  saved_positions_,    \* [thread]: SourceTablePosition saved by the thread
  clean_request,       \* the last clean call and the table it found
  \* ---- ModelManager ----
  models_,             \* [id]: node model, its name and its defaults
  prototypes_,         \* [thread][id]: synapse prototype, name and defaults
  mm_request,          \* the last call and its arguments
  mm_outcome,          \* how the last call ended
  \* ---- packed fields: SourceTable::reserve, SpikeData, Target ----
  synapse_ids_,        \* [tid]: map from synapse id to syn_index
  spike_data,          \* the SpikeData written last
  packed_target,       \* the Target constructed last
  pk_request,          \* the last write and the values passed to it
  \* ---- sort.h: the two vectors sorted together ----
  vec_sort,
  vec_perm,
  sort_request,        \* the last call, its arguments and the vectors passed
  \* ---- get_next_target_data, one pass of its loop at a time ----
  gntd_pc,             \* [thread]: "idle", or "loop" inside a call
  h_ret,               \* [thread]: how the last call of the thread returned
  \* ---- ModelManager: the synapse prototypes as registered ----
  pristine_prototypes_, \* [id]: the prototypes passed to register_synapse_prototype
  \* ---- random_divergent_connect and random_convergent_connect ----
  rnd_pc,              \* "idle", "draw" inside the loops, "done" after the call
  rnd_request,         \* the call and its arguments
  rnd_j,               \* j of the loop over the n connections
  ch_ids,              \* the indices chosen so far, kept without multapses
  chosen_,             \* chosen_targets or chosen_sources
  rnd_last,            \* the last index drawn and the parity of the draws
  \* ---- compute_buffer_pos_for_unique_secondary_sources ----
  gid_to_buffer_pos,   \* the map filled by the call
  chunk_size_secondary_events, \* mpi_manager's chunk size, set by the call
  buf_request          \* the call, the table it read and what it collected

schedVars ==
  <<cm_min_delay, cm_max_delay, min_delay_, max_delay_, clock_, slice_, to_do_,
    from_step_, to_step_, terminate_, simulated_, moduli_, slice_moduli_,
    spike_register_, local_grid_spikes_, global_grid_spikes_, displacements_,
    send_buffer_size_, pc, ring, h_requested, h_midslice, h_upd, h_dlv, h_gath, h_emit,
    h_flight, h_handed, h_read, h_nspikes, SLIsignalflag, exceptions_raised,
    simulating_, sim_request, sim_outcome, h_phases>>

\* the state of the simulate call besides the slices and the spikes
runVars ==
  <<SLIsignalflag, exceptions_raised, simulating_, sim_request, sim_outcome,
    h_phases>>

delayVars ==
  <<dc_min_delay_, dc_max_delay_, user_set_delay_extrema_, connections,
    has_been_simulated, sim_min_delay, sim_max_delay, dc_outcome, dc_request,
    num_nodes>>

exchangeVars ==
  <<x_min_delay, x_clock, x_register, x_local, x_global, x_displacements,
    x_send_buffer_size, x_pc, x_delivered, x_handed, x_sent, x_nspikes>>

buildVars ==
  <<sources_, last_sorted_source_, current_positions_, subsequent_targets,
    target_data, build_done, targets_, target_table_built, h_marked, h_send>>

kernelVars ==
  <<k_size, k_simulated, k_num_connections, k_clock, k_tics_per_ms,
    k_tics_per_step, k_outcome, k_request>>

connectVars ==
  <<bulk_connections, bulk_request, bulk_created, bulk_warnings, bulk_outcome>>

cleanVars == <<saved_positions_, clean_request>>

modelVars == <<models_, prototypes_, mm_request, mm_outcome>>

packedVars == <<synapse_ids_, spike_data, packed_target, pk_request>>

sortVars == <<vec_sort, vec_perm, sort_request>>

\* the variables outside the kernel
cursorVars == <<gntd_pc, h_ret>>
protoVars == <<pristine_prototypes_>>
randVars == <<rnd_pc, rnd_request, rnd_j, ch_ids, chosen_, rnd_last>>
bufVars == <<gid_to_buffer_pos, chunk_size_secondary_events, buf_request>>
otherVars == <<sortVars, cursorVars, protoVars, randVars, bufVars>>

\* the variables of the kernel
kernelAllVars ==
  <<schedVars, delayVars, exchangeVars, buildVars, kernelVars, connectVars,
    cleanVars, modelVars, packedVars>>
\* the variables outside sort.h
nonSortVars == <<kernelAllVars, cursorVars, protoVars, randVars, bufVars>>
\* the variables outside otherVars a pass of get_next_target_data leaves alone
cursorFrameVars == <<sortVars, protoVars, randVars, bufVars>>

vars ==
  <<schedVars, delayVars, exchangeVars, buildVars, kernelVars, connectVars,
    cleanVars, modelVars,
    packedVars, otherVars>>

\* the variables outside the scheduler
nonSchedVars ==
  <<delayVars, exchangeVars, buildVars, kernelVars, connectVars, cleanVars,
    modelVars,
    packedVars, otherVars>>
\* the variables outside the DelayChecker
nonDelayVars ==
  <<schedVars, exchangeVars, buildVars, kernelVars, connectVars, cleanVars,
    modelVars,
    packedVars, otherVars>>
\* the variables outside the spike exchange
nonExchangeVars ==
  <<schedVars, delayVars, buildVars, kernelVars, connectVars, cleanVars,
    modelVars,
    packedVars, otherVars>>
\* the variables outside the target-table construction
nonBuildVars ==
  <<schedVars, delayVars, exchangeVars, kernelVars, connectVars, cleanVars,
    modelVars,
    packedVars, otherVars>>
\* the variables outside the kernel configuration
nonKernelVars ==
  <<schedVars, delayVars, exchangeVars, buildVars, connectVars, cleanVars,
    modelVars,
    packedVars, otherVars>>
\* the variables outside the bulk connect
nonConnectVars ==
  <<schedVars, delayVars, exchangeVars, buildVars, kernelVars, cleanVars,
    modelVars,
    packedVars, otherVars>>

(***************************************************************************)
(* Moduli tables                                                           *)
(***************************************************************************)
\* number of bins of the slice-based ring buffers: ceil((min+max)/min)
nbuff(mind, maxd) == (mind + maxd + mind - 1) \div mind

\* Network::init_moduli_: the tables <<moduli_, slice_moduli_>> at clock clk
init_moduli_(clk, mind, maxd) ==
  << [i \in 1..(mind + maxd) |-> (clk + (i - 1)) % (mind + maxd)],
     [i \in 1..(mind + maxd) |-> ((clk + (i - 1)) \div mind) % nbuff(mind, maxd)] >>

\* std::rotate(v.begin(), v.begin() + k, v.end()): rotate left by k
Rotate(v, k) == SubSeq(v, k + 1, Len(v)) \o SubSeq(v, 1, k)

\* compute_moduli_ rotating by one position instead of min_delay
compute_moduli_rotate_one(mod, smod, clk, mind, maxd) ==
  << Rotate(mod, 1),
     [i \in 1..Len(smod) |-> ((clk + (i - 1)) \div mind) % nbuff(mind, maxd)] >>

\* compute_moduli_ recomputing slice_moduli_ for the clock before the advance
compute_moduli_old_clock(mod, smod, clk, mind, maxd) ==
  << Rotate(mod, mind),
     [i \in 1..Len(smod) |->
        (((clk - mind) + (i - 1)) \div mind) % nbuff(mind, maxd)] >>

\* Network::compute_moduli_: called with the clock already advanced
compute_moduli_(mod, smod, clk, mind, maxd) ==
  << Rotate(mod, mind),
     [i \in 1..Len(smod) |-> ((clk + (i - 1)) \div mind) % nbuff(mind, maxd)] >>

(***************************************************************************)
(* Spike buffers: encoding, exchange, decoding                             *)
(***************************************************************************)
\* the lag groups of one thread's register, each closed by comm_marker_
RECURSIVE CollocateThread(_)
CollocateThread(groups) ==
  IF groups = <<>> THEN <<>>
  ELSE Head(groups) \o <<comm_marker_>> \o CollocateThread(Tail(groups))

\* reg as the sequence of the registers of threads 0, 1, ...
RegSeq(reg) == [i \in 1..Cardinality(DOMAIN reg) |-> reg[i - 1]]

RECURSIVE CollocateAll(_)
CollocateAll(regs) ==
  IF regs = <<>> THEN <<>>
  ELSE CollocateThread(Head(regs)) \o CollocateAll(Tail(regs))

\* number of spikes in all registers
NumSpikes(reg) ==
  SumSeq([i \in 1..Cardinality(DOMAIN reg) |->
            SumSeq([j \in 1..Len(reg[i - 1]) |-> Len(reg[i - 1][j])])])

\* collocate_buffers_ writing the marker in front of each lag group
RECURSIVE CollocateThreadMarkerFirst(_)
CollocateThreadMarkerFirst(groups) ==
  IF groups = <<>> THEN <<>>
  ELSE <<comm_marker_>> \o Head(groups) \o CollocateThreadMarkerFirst(Tail(groups))

collocate_buffers_marker_first(reg, local, send_size, mind) ==
  LET written == Concat([i \in 1..Cardinality(DOMAIN reg) |->
                           CollocateThreadMarkerFirst(reg[i - 1])])
      sized   == Resize(local, Max(Len(local), Len(written)), 0)
  IN  written \o SubSeq(sized, Len(written) + 1, Len(sized))

\* Network::collocate_buffers_ (on-grid spiking, no off-grid spikes):
\* the new content of local_grid_spikes_
collocate_buffers_(reg, local, send_size, mind) ==
  LET nthr    == Cardinality(DOMAIN reg)
      num     == NumSpikes(reg)
      sized   == IF num + nthr * mind > send_size
                   THEN Resize(local, num + nthr * mind, 0)
                   ELSE IF Len(local) < send_size
                          THEN Resize(local, send_size, 0)
                          ELSE local
      written == CollocateAll(RegSeq(reg))
  IN  written \o SubSeq(sized, Len(written) + 1, Len(sized))

\* the registers after collocate_buffers_: every lag group cleared
ClearRegister(reg) ==
  [t \in DOMAIN reg |-> [j \in 1..Len(reg[t]) |-> <<>>]]

\* Communicator::communicate: the send buffers of ranks 0, 1, ... arrive
\* concatenated in the receive buffer of every rank; displacements gives the
\* start of each rank's chunk
RECURSIVE Offsets(_, _)
Offsets(bufs, start) ==
  IF bufs = <<>> THEN <<>>
  ELSE <<start>> \o Offsets(Tail(bufs), start + Len(Head(bufs)))

communicate(sendbufs) ==
  [global |-> Concat(sendbufs), displacements |-> Offsets(sendbufs, 0)]

\* an event read past the end of the receive buffer
OutOfBuffer == [gid |-> -1, stamp |-> -1]

\* inner while loop of deliver_events_ for one vp: reads lag groups
\* min_delay-1 .. 0 starting at pos; the events are stamped clock - lag
RECURSIVE DecodeVP(_, _, _, _, _)
DecodeVP(buf, pos, lag, clk, acc) ==
  IF lag < 0 THEN [pos |-> pos, ev |-> acc]
  ELSE IF pos >= Len(buf) THEN [pos |-> pos, ev |-> Append(acc, OutOfBuffer)]
  ELSE LET nid == At(buf, pos)
       IN IF nid # comm_marker_
            THEN DecodeVP(buf, pos + 1, lag, clk,
                          Append(acc, [gid |-> nid, stamp |-> clk - lag]))
            ELSE DecodeVP(buf, pos + 1, lag - 1, clk, acc)

\* the outer loop of deliver_events_ without pos[ pid ] = pos_pid
RECURSIVE DecodeFromSamePos(_, _, _, _, _, _, _, _)
DecodeFromSamePos(buf, pos, vp, nvp, nproc, clk, mind, acc) ==
  IF vp >= nvp THEN acc
  ELSE LET pid == vp % nproc
           r   == DecodeVP(buf, At(pos, pid), mind - 1, clk, <<>>)
       IN DecodeFromSamePos(buf, pos, vp + 1, nvp, nproc, clk, mind, acc \o r.ev)

\* outer loop of deliver_events_ over the vps vp .. nvp-1
RECURSIVE DecodeFrom(_, _, _, _, _, _, _, _)
DecodeFrom(buf, pos, vp, nvp, nproc, clk, mind, acc) ==
  IF vp >= nvp THEN acc
  ELSE LET pid == vp % nproc
           r   == DecodeVP(buf, At(pos, pid), mind - 1, clk, <<>>)
       IN DecodeFrom(buf, [pos EXCEPT ![pid + 1] = r.pos], vp + 1, nvp, nproc,
                     clk, mind, acc \o r.ev)

\* deliver_events_ preparing the time stamps one step too early
deliver_events_early(buf, displ, nvp, nproc, clk, mind) ==
  DecodeFrom(buf, displ, 0, nvp, nproc, clk - 1, mind, <<>>)

\* Network::deliver_events_ (on-grid): the events thread t hands to
\* connection_manager_.send, in order
deliver_events_(buf, displ, nvp, nproc, clk, mind) ==
  DecodeFrom(buf, displ, 0, nvp, nproc, clk, mind, <<>>)

\* Network::send<SpikeEvent>: the stamp of a spike emitted at lag
send_stamp(origin, lag) == origin + lag + 1

(***************************************************************************)
(* Ring buffers of the targets                                             *)
(***************************************************************************)
\* every source has one connection of each delay in [min, max] to the
\* target node of every thread
ConnDelays == cm_min_delay..cm_max_delay

\* Network::get_modulo(d)
get_modulo(d) == IF d \in 0..(Len(moduli_) - 1) THEN At(moduli_, d) ELSE -1

\* RingBuffer::add_value for all events handed to thread t's target:
\* an event with stamp s over a connection of delay d goes to bin
\* moduli_[s + d - 1 - clock]
ring_add(rb, events) ==
  [b \in 1..Len(rb) |->
     rb[b] \cup { [src |-> events[k].gid, emit |-> events[k].stamp - 1,
                   arrive |-> events[k].stamp + d - 1] :
                  <<k, d>> \in { kd \in (1..Len(events)) \X ConnDelays :
                      get_modulo(events[kd[1]].stamp + kd[2] - 1 - clock_) = b - 1 } }]

\* RingBuffer::get_value for lags from..to-1: the bins read are cleared
ring_get(rb, from, to) ==
  [b \in 1..Len(rb) |->
     IF \E lag \in from..(to - 1) : get_modulo(lag) = b - 1 THEN {} ELSE rb[b]]

\* what ring_get returns: each entry with the step at which it is read
ring_read(rb, from, to) ==
  UNION { { [src |-> e.src, emit |-> e.emit, arrive |-> e.arrive, at |-> clock_ + lag] :
            e \in (IF get_modulo(lag) \in 0..(Len(rb) - 1)
                     THEN rb[get_modulo(lag) + 1] ELSE {}) } :
          lag \in from..(to - 1) }

(***************************************************************************)
(* Scheduler: Network::simulate, resume, update, advance_time_             *)
(***************************************************************************)
\* Time::pos_inf and Time::neg_inf in steps: beyond every delay of the model
Time_pos_inf == MaxDelaySteps + MaxPackedDelay + 2
Time_neg_inf == 0 - Time_pos_inf
\* Time::get_resolution() in steps
resolution == 1

\* DelayChecker::DelayChecker, in a kernel that has neither connections nor
\* simulated
InitDelayChecker ==
  /\ dc_min_delay_ = Time_pos_inf
  /\ dc_max_delay_ = Time_neg_inf
  /\ user_set_delay_extrema_ = FALSE
  /\ connections = <<>>
  /\ has_been_simulated = FALSE
  /\ sim_min_delay = Time_pos_inf
  /\ sim_max_delay = Time_neg_inf
  /\ dc_outcome = "none"
  /\ dc_request = [op |-> "none"]
  /\ num_nodes = 1

\* the processes of the spike exchange model
Ranks == {0, 1}
NumRanks == Cardinality(Ranks)

\* the spike exchange before the first simulate call
InitBuffers ==
  /\ x_min_delay = 1
  /\ x_clock = 0
  /\ x_register = [r \in Ranks |-> [t \in Threads |-> <<>>]]
  /\ x_local = [r \in Ranks |-> <<>>]
  /\ x_global = [r \in Ranks |-> <<>>]
  /\ x_displacements = [r \in Ranks |-> <<>>]
  /\ x_send_buffer_size = 0
  /\ x_pc = "update"
  /\ x_delivered = [r \in Ranks |-> [t \in Threads |-> FALSE]]
  /\ x_handed = [r \in Ranks |-> [t \in Threads |-> <<>>]]
  /\ x_sent = [r \in Ranks |-> [t \in Threads |-> <<>>]]
  /\ x_nspikes = 0

\* no vector has been sorted
InitOther ==
  /\ vec_sort = <<>>
  /\ vec_perm = <<>>
  /\ sort_request = [op |-> "none"]
  /\ gntd_pc = [t \in Threads |-> "idle"]
  /\ h_ret = [t \in Threads |-> "none"]
  /\ pristine_prototypes_ =
       <<[name |-> "static_synapse", defaults |-> 0, syn_id |-> 0]>>
  /\ rnd_pc = "idle"
  /\ rnd_request = [op |-> "none"]
  /\ rnd_j = 0
  /\ ch_ids = {}
  /\ chosen_ = <<>>
  /\ rnd_last = <<-1, 0>>
  /\ gid_to_buffer_pos = <<>>
  /\ chunk_size_secondary_events = 0
  /\ buf_request = [op |-> "none"]

\* SourceTable::initialize: no synapse type is known; SpikeData() and
\* Target(): all fields zero
InitPacked ==
  /\ synapse_ids_ = [tid \in Threads |-> <<>>]
  /\ spike_data = [tid |-> 0, syn_index |-> 0, lcid |-> 0, lag |-> 0,
                   marker |-> 0]
  /\ packed_target = [lcid |-> 0, rank |-> 0, tid |-> 0, syn_index |-> 0,
                      processed |-> FALSE]
  /\ pk_request = [op |-> "none"]
  /\ InitOther

\* SourceTable::initialize: no sources yet
InitSourceTable ==
  /\ sources_ = [tid \in Threads |-> <<>>]
  /\ last_sorted_source_ = [tid \in Threads |-> <<>>]
  /\ current_positions_ =
       [t \in Threads |-> [tid |-> -1, syn_index |-> -1, lcid |-> -1]]
  /\ subsequent_targets = [tid \in Threads |-> <<>>]
  /\ target_data = [t \in Threads |-> <<>>]
  /\ build_done = [t \in Threads |-> FALSE]
  /\ targets_ = [r \in Ranks |-> [tid \in Threads |-> <<>>]]
  /\ target_table_built = FALSE
  /\ h_marked = [tid \in Threads |-> <<>>]
  /\ h_send = <<>>
  /\ saved_positions_ =
       [t \in Threads |-> [tid |-> -1, syn_index |-> -1, lcid |-> -1]]
  /\ clean_request = [op |-> "none"]
  /\ InitPacked

\* the kernel before any node exists: the root only, nothing simulated, a
\* resolution of half a millisecond at four tics per millisecond
InitKernel ==
  /\ k_size = 1
  /\ k_simulated = FALSE
  /\ k_num_connections = 0
  /\ k_clock = 0
  /\ k_tics_per_ms = 4
  /\ k_tics_per_step = 2
  /\ k_outcome = "none"
  /\ k_request = [op |-> "none"]

\* no connection has been made
InitConnect ==
  /\ bulk_connections = <<>>
  /\ bulk_request = [op |-> "none"]
  /\ bulk_created = <<>>
  /\ bulk_warnings = 0
  /\ bulk_outcome = "none"

\* ModelManager after initialization: the built-in node model and the
\* built-in synapse prototype, the latter once per thread
InitModels ==
  /\ models_ = <<[name |-> "iaf_neuron", defaults |-> 0]>>
  /\ prototypes_ =
       [t \in Threads |->
          <<[name |-> "static_synapse", defaults |-> 0, syn_id |-> 0]>>]
  /\ mm_request = [op |-> "none"]
  /\ mm_outcome = "none"

\* Network::Network and init_scheduler_
InitNetwork ==
  /\ InitKernel
  /\ InitConnect
  /\ InitModels
  /\ min_delay_ = 1
  /\ max_delay_ = 1
  /\ clock_ = 0
  /\ slice_ = 0
  /\ to_do_ = 0
  /\ from_step_ = 0
  /\ to_step_ = 0
  /\ terminate_ = FALSE
  /\ simulated_ = FALSE
  /\ moduli_ = <<>>
  /\ slice_moduli_ = <<>>
  /\ spike_register_ = [t \in Threads |-> <<>>]
  /\ local_grid_spikes_ = <<>>
  /\ global_grid_spikes_ = <<>>
  /\ displacements_ = <<>>
  /\ send_buffer_size_ = 0
  /\ pc = [t \in Threads |-> "idle"]
  /\ ring = [t \in Threads |-> <<>>]
  /\ h_requested = 0
  /\ h_midslice = FALSE
  /\ h_upd = [t \in Threads |-> <<>>]
  /\ h_dlv = [t \in Threads |-> <<>>]
  /\ h_gath = <<>>
  /\ h_emit = [t \in Threads |-> <<>>]
  /\ h_flight = [t \in Threads |-> <<>>]
  /\ h_handed = [t \in Threads |-> <<>>]
  /\ h_read = [t \in Threads |-> {}]
  /\ h_nspikes = 0
  /\ SLIsignalflag = 0
  /\ exceptions_raised = [t \in Threads |-> 0]
  /\ simulating_ = FALSE
  /\ sim_request = [op |-> "none"]
  /\ sim_outcome = [kind |-> "none", thrown |-> 0]
  /\ h_phases = {}

\* Network::Network and init_scheduler_; the connection manager holds
\* connections with delays cm_min_delay..cm_max_delay
InitSched ==
  /\ cm_min_delay \in 1..(MaxDelaySteps - 1)
  /\ cm_max_delay \in cm_min_delay..MaxDelaySteps
  /\ InitNetwork
  /\ InitDelayChecker
  /\ InitBuffers
  /\ InitSourceTable

\* Network::update_delay_extrema_ (one process): <<min_delay_, max_delay_>>
update_delay_extrema_ == <<cm_min_delay, cm_max_delay>>

\* size of the send buffer set by configure_spike_buffers_
ConfiguredSendSize(mind) ==
  IF NumThreads * mind > 2 THEN NumThreads * mind ELSE 2

\* to_step_ as set by simulate and by advance_time_
end_of_update(mind, from, todo) ==
  IF mind < from + todo THEN mind ELSE from + todo

\* NodeManager::prepare_nodes: sets up the moduli tables for the current
\* clock and extrema
prepare_nodes(clk, mind, maxd) == init_moduli_(clk, mind, maxd)

\* Network::simulate treating every duration but 0 as one to simulate
simulate_entry_zero_only(t) ==
  IF t = 0 THEN "return" ELSE "run"

\* Network::simulate, lines 369-380, for a duration of t steps: return at
\* once, raise KernelException, or go on to simulate
simulate_entry(t) ==
  IF t = 0 THEN "return"
  ELSE IF t < 1 THEN "KernelException"
  ELSE "run"

\* prepare_simulation setting up the spike buffers at every call
configure_spike_buffers_needed_always == TRUE

\* prepare_simulation, line 2019: the spike buffers are set up at the
\* beginning of a simulation only
configure_spike_buffers_needed == ~simulated_

\* Network::simulate(t) for t of at least one step, up to the entry of the
\* parallel region of update(): to_do_ += t, prepare_simulation, to_step_,
\* and the head of resume
SimulateBody(t) ==
  /\ \A th \in Threads : pc[th] = "idle"
  /\ simulate_entry(t) = "run"
  /\ clock_ + from_step_ + to_do_ + t <= MaxTotalSteps
  /\ LET ext  == update_delay_extrema_
         mind == ext[1]
         maxd == ext[2]
         tabs == prepare_nodes(clock_, mind, maxd)
     IN /\ to_do_' = to_do_ + t
        /\ min_delay_' = mind
        /\ max_delay_' = maxd
        \* configure_spike_buffers_ runs before the first simulation only
        /\ IF configure_spike_buffers_needed
             THEN /\ spike_register_' = [th \in Threads |-> Fill(mind, <<>>)]
                  /\ h_emit' = [th \in Threads |-> <<>>]
                  /\ send_buffer_size_' = ConfiguredSendSize(mind)
                  /\ local_grid_spikes_' = Fill(ConfiguredSendSize(mind), 0)
                  /\ global_grid_spikes_' =
                       Fill(ConfiguredSendSize(mind) * NumProcesses, 0)
                  /\ displacements_' = Fill(NumProcesses, 0)
                  /\ ring' = [th \in Threads |-> Fill(mind + maxd, {})]
             ELSE UNCHANGED <<spike_register_, h_emit, send_buffer_size_,
                              local_grid_spikes_, global_grid_spikes_,
                              displacements_, ring>>
        /\ moduli_' = tabs[1]
        /\ slice_moduli_' = tabs[2]
        /\ to_step_' = end_of_update(mind, from_step_, to_do_ + t)
  /\ terminate_' = FALSE
  /\ simulating_' = TRUE
  /\ simulated_' = TRUE
  /\ exceptions_raised' = [th \in Threads |-> 0]
  /\ pc' = [th \in Threads |-> "deliver"]
  /\ h_requested' = h_requested + t
  /\ sim_request' = [op |-> "simulate", t |-> t,
                     resumed |-> (sim_outcome.kind = "SystemSignal" /\ to_do_ > 0)]
  /\ sim_outcome' = [kind |-> "running", thrown |-> 0]
  /\ h_phases' = {"prepare", "update"}
  /\ UNCHANGED SLIsignalflag
  /\ UNCHANGED <<cm_min_delay, cm_max_delay, clock_, slice_, from_step_, h_midslice,
                 h_upd, h_dlv, h_gath, h_flight, h_handed, h_read, h_nspikes>>

\* Network::simulate(t) in the scheduler alone
Simulate(t) ==
  /\ UNCHANGED nonSchedVars
  /\ SimulateBody(t)

\* update(), thread t: deliver_events_(t) at the beginning of a slice
Deliver(t) ==
  /\ UNCHANGED nonSchedVars
  /\ pc[t] = "deliver"
  /\ pc' = [pc EXCEPT ![t] = "update"]
  /\ IF from_step_ = 0
       THEN LET ev == deliver_events_(global_grid_spikes_, displacements_, NumVPs,
                                      NumProcesses, clock_, min_delay_)
            IN /\ h_handed' = [h_handed EXCEPT ![t] = ev]
               /\ ring' = [ring EXCEPT ![t] = ring_add(ring[t], ev)]
               /\ h_dlv' = [h_dlv EXCEPT ![t] = Append(h_dlv[t], clock_)]
       ELSE UNCHANGED <<h_handed, ring, h_dlv>>
  /\ UNCHANGED <<cm_min_delay, cm_max_delay, min_delay_, max_delay_, clock_,
                 slice_, to_do_, from_step_, to_step_, terminate_, simulated_,
                 moduli_, slice_moduli_, spike_register_, local_grid_spikes_,
                 global_grid_spikes_, displacements_, send_buffer_size_,
                 h_requested, h_midslice, h_upd, h_gath, h_emit, h_flight,
                 h_read, h_nspikes>>
  /\ UNCHANGED runVars

\* the GIDs of spk (a set of <<gid, lag>>) at lag, in the order of nodes
SpikersAt(nodes, spk, lag) ==
  SelectSeq(nodes, LAMBDA g : <<g, lag>> \in spk)

\* Network::send_remote for every spike of spk: append the GID to the
\* register of the emitting thread at the spike's lag
send_remote(reg, nodes, spk) ==
  [j \in 1..Len(reg) |-> reg[j] \o SpikersAt(nodes, spk, j - 1)]

\* the lags from_step_..to_step_-1 at which node g spikes, ascending
LagsOf(g, spk) ==
  SelectSeq([k \in 1..(to_step_ - from_step_) |-> from_step_ + k - 1],
            LAMBDA l : <<g, l>> \in spk)

\* the calls of Network::send made by the nodes of a thread, in order: each
\* node in turn, its lags ascending; the stamp is the one send sets
SentEvents(nodes, spk) ==
  Concat([i \in 1..Len(nodes) |->
            [k \in 1..Len(LagsOf(nodes[i], spk)) |->
               [gid |-> nodes[i], lag |-> LagsOf(nodes[i], spk)[k],
                origin |-> clock_,
                stamp |-> send_stamp(clock_, LagsOf(nodes[i], spk)[k])]]])

\* update(), thread t: Node::update(clock_, from_step_, to_step_) for every
\* node of the thread; spk is the set of <<gid, lag>> at which nodes spike,
\* the nodes being among spiking; thrower is the GID of the last node of the
\* thread whose update throws, 0 if none does: the exception is kept in the
\* slot of the thread and terminate_ is set
UpdateNodes(t, thrower, spiking) ==
  /\ UNCHANGED nonSchedVars
  /\ thrower \in {0} \cup {nodes_vec(t)[i] : i \in 1..Len(nodes_vec(t))}
  /\ exceptions_raised' =
       IF thrower # 0 THEN [exceptions_raised EXCEPT ![t] = thrower]
       ELSE exceptions_raised
  /\ terminate_' = (terminate_ \/ thrower # 0)
  /\ UNCHANGED <<SLIsignalflag, simulating_, sim_request, sim_outcome, h_phases>>
  /\ pc[t] = "update"
  /\ pc' = [pc EXCEPT ![t] = "barrier"]
  /\ \E spk \in SUBSET (({nodes_vec(t)[i] : i \in 1..Len(nodes_vec(t))}
                            \cap spiking)
                          \X (from_step_..(to_step_ - 1))) :
       /\ h_nspikes + Cardinality(spk) <= MaxSpikes
       /\ h_nspikes' = h_nspikes + Cardinality(spk)
       /\ spike_register_' =
            [spike_register_ EXCEPT ![t] = send_remote(@, nodes_vec(t), spk)]
       /\ h_emit' = [h_emit EXCEPT ![t] = @ \o SentEvents(nodes_vec(t), spk)]
  /\ h_read' = [h_read EXCEPT ![t] = ring_read(ring[t], from_step_, to_step_)]
  /\ ring' = [ring EXCEPT ![t] = ring_get(ring[t], from_step_, to_step_)]
  /\ h_upd' = [h_upd EXCEPT ![t] =
                 @ \o [k \in 1..(to_step_ - from_step_) |-> clock_ + from_step_ + k - 1]]
  /\ UNCHANGED <<cm_min_delay, cm_max_delay, min_delay_, max_delay_, clock_,
                 slice_, to_do_, from_step_, to_step_, simulated_,
                 moduli_, slice_moduli_, local_grid_spikes_,
                 global_grid_spikes_, displacements_, send_buffer_size_,
                 h_requested, h_midslice, h_dlv, h_gath, h_flight, h_handed>>

\* advance_time_ leaving from_step_ at the end of the completed slice
advance_time_no_reset ==
  LET todo == to_do_ - (to_step_ - from_step_)
  IN IF to_step_ = min_delay_
       THEN LET clk  == clock_ + min_delay_
                tabs == compute_moduli_(moduli_, slice_moduli_, clk,
                                        min_delay_, max_delay_)
            IN <<todo, clk, slice_ + 1, to_step_,
                 end_of_update(min_delay_, to_step_, todo), tabs[1], tabs[2]>>
       ELSE <<todo, clock_, slice_, to_step_,
              end_of_update(min_delay_, to_step_, todo), moduli_, slice_moduli_>>

\* advance_time_ subtracting to_step_ instead of to_step_ - from_step_
advance_time_whole_slice ==
  LET todo == to_do_ - to_step_
  IN IF to_step_ = min_delay_
       THEN LET clk  == clock_ + min_delay_
                tabs == compute_moduli_(moduli_, slice_moduli_, clk,
                                        min_delay_, max_delay_)
            IN <<todo, clk, slice_ + 1, 0, end_of_update(min_delay_, 0, todo),
                 tabs[1], tabs[2]>>
       ELSE <<todo, clock_, slice_, to_step_,
              end_of_update(min_delay_, to_step_, todo), moduli_, slice_moduli_>>

\* Network::advance_time_: the new
\* <<to_do_, clock_, slice_, from_step_, to_step_, moduli_, slice_moduli_>>
advance_time_ ==
  LET todo == to_do_ - (to_step_ - from_step_)
  IN IF to_step_ = min_delay_
       THEN LET clk  == clock_ + min_delay_
                tabs == compute_moduli_(moduli_, slice_moduli_, clk,
                                        min_delay_, max_delay_)
            IN <<todo, clk, slice_ + 1, 0, end_of_update(min_delay_, 0, todo),
                 tabs[1], tabs[2]>>
       ELSE <<todo, clock_, slice_, to_step_,
              end_of_update(min_delay_, to_step_, todo), moduli_, slice_moduli_>>

\* Network::gather_events_: the new
\* <<local_grid_spikes_, global_grid_spikes_, displacements_, spike_register_>>
gather_events_ ==
  LET loc == collocate_buffers_(spike_register_, local_grid_spikes_,
                                send_buffer_size_, min_delay_)
      com == communicate(<<loc>>)
  IN <<loc, com.global, com.displacements, ClearRegister(spike_register_)>>

\* update(), master section between the two barriers: gather_events_ at the
\* end of a slice, then advance_time_, then the test of the signal flag
MasterSection ==
  /\ UNCHANGED nonSchedVars
  /\ \A t \in Threads : pc[t] = "barrier"
  /\ pc' = [t \in Threads |-> "test"]
  /\ IF to_step_ = min_delay_
       THEN LET g == gather_events_
            IN /\ local_grid_spikes_' = g[1]
               /\ global_grid_spikes_' = g[2]
               /\ displacements_' = g[3]
               /\ spike_register_' = g[4]
               /\ send_buffer_size_' = Max(send_buffer_size_, Len(g[1]))
               /\ h_gath' = Append(h_gath, clock_)
               /\ h_flight' = h_emit
               /\ h_emit' = [t \in Threads |-> <<>>]
       ELSE UNCHANGED <<local_grid_spikes_, global_grid_spikes_, displacements_,
                        spike_register_, send_buffer_size_, h_gath, h_flight,
                        h_emit>>
  /\ LET a == advance_time_
     IN /\ to_do_' = a[1]
        /\ clock_' = a[2]
        /\ slice_' = a[3]
        /\ from_step_' = a[4]
        /\ to_step_' = a[5]
        /\ moduli_' = a[6]
        /\ slice_moduli_' = a[7]
  /\ terminate_' = (terminate_ \/ SLIsignalflag # 0)
  /\ UNCHANGED <<cm_min_delay, cm_max_delay, min_delay_, max_delay_,
                 simulated_, ring, h_requested, h_midslice, h_upd, h_dlv,
                 h_handed, h_read, h_nspikes>>
  /\ UNCHANGED runVars

\* update(), thread t: while ( to_do_ != 0 && !terminate_ )
LoopTest(t) ==
  /\ UNCHANGED nonSchedVars
  /\ pc[t] = "test"
  /\ pc' = [pc EXCEPT ![t] = IF to_do_ # 0 /\ ~terminate_ THEN "deliver" ELSE "done"]
  /\ UNCHANGED <<cm_min_delay, cm_max_delay, min_delay_, max_delay_, clock_,
                 slice_, to_do_, from_step_, to_step_, terminate_, simulated_,
                 moduli_, slice_moduli_, spike_register_, local_grid_spikes_,
                 global_grid_spikes_, displacements_, send_buffer_size_, ring,
                 h_requested, h_midslice, h_upd, h_dlv, h_gath, h_emit,
                 h_flight, h_handed, h_read, h_nspikes>>
  /\ UNCHANGED runVars

\* what follows the parallel region: update() rethrows the exception of the
\* first thread that holds one; otherwise resume clears simulating_ and, if
\* terminate_ is set, throws the signal (clearing the flag) or
\* SimulationError; otherwise simulate runs finalize_simulation
end_of_simulate ==
  IF \E thr \in Threads : exceptions_raised[thr] # 0
    THEN LET first == CHOOSE thr \in Threads :
                        /\ exceptions_raised[thr] # 0
                        /\ \A o \in Threads : exceptions_raised[o] # 0 => thr <= o
         IN [kind |-> "WrappedThreadException", thrown |-> exceptions_raised[first],
             simulating |-> simulating_, signal |-> SLIsignalflag,
             finalize |-> FALSE]
  ELSE IF terminate_
    THEN IF SLIsignalflag # 0
           THEN [kind |-> "SystemSignal", thrown |-> 0, simulating |-> FALSE,
                 signal |-> 0, finalize |-> FALSE]
           ELSE [kind |-> "SimulationError", thrown |-> 0, simulating |-> FALSE,
                 signal |-> SLIsignalflag, finalize |-> FALSE]
  ELSE [kind |-> "ok", thrown |-> 0, simulating |-> FALSE,
        signal |-> SLIsignalflag, finalize |-> simulated_]

\* end of the parallel region; the rest of update, resume and simulate
SimulateReturn ==
  /\ UNCHANGED nonSchedVars
  /\ \A t \in Threads : pc[t] = "done"
  /\ pc' = [t \in Threads |-> "idle"]
  /\ h_midslice' = (h_midslice \/ from_step_ # 0)
  /\ LET e == end_of_simulate
     IN /\ sim_outcome' = [kind |-> e.kind, thrown |-> e.thrown]
        /\ simulating_' = e.simulating
        /\ SLIsignalflag' = e.signal
        /\ h_phases' = IF e.finalize THEN h_phases \cup {"finalize"} ELSE h_phases
  /\ UNCHANGED <<cm_min_delay, cm_max_delay, min_delay_, max_delay_, clock_,
                 slice_, to_do_, from_step_, to_step_, terminate_, simulated_,
                 moduli_, slice_moduli_, spike_register_, local_grid_spikes_,
                 global_grid_spikes_, displacements_, send_buffer_size_, ring,
                 h_requested, h_upd, h_dlv, h_gath, h_emit, h_flight, h_handed,
                 h_read, h_nspikes, exceptions_raised, sim_request>>

\* Network::simulate(t) for a duration that is not simulated: 0 returns at
\* once, a duration below one step raises KernelException
SimulateRefused(t) ==
  /\ UNCHANGED nonSchedVars
  /\ \A th \in Threads : pc[th] = "idle"
  /\ simulate_entry(t) # "run"
  /\ sim_request' = [op |-> "simulate", t |-> t,
                     resumed |-> (sim_outcome.kind = "SystemSignal" /\ to_do_ > 0)]
  /\ sim_outcome' = [kind |-> simulate_entry(t), thrown |-> 0]
  /\ h_phases' = {}
  /\ UNCHANGED <<cm_min_delay, cm_max_delay, min_delay_, max_delay_, clock_,
                 slice_, to_do_, from_step_, to_step_, terminate_, simulated_,
                 moduli_, slice_moduli_, spike_register_, local_grid_spikes_,
                 global_grid_spikes_, displacements_, send_buffer_size_, pc,
                 ring, h_requested, h_midslice, h_upd, h_dlv, h_gath, h_emit,
                 h_flight, h_handed, h_read, h_nspikes, SLIsignalflag,
                 exceptions_raised, simulating_>>

\* the user interrupts: the signal handler sets the flag
RaiseSignal ==
  /\ UNCHANGED nonSchedVars
  /\ SLIsignalflag = 0
  /\ SLIsignalflag' = 1
  /\ UNCHANGED <<cm_min_delay, cm_max_delay, min_delay_, max_delay_, clock_,
                 slice_, to_do_, from_step_, to_step_, terminate_, simulated_,
                 moduli_, slice_moduli_, spike_register_, local_grid_spikes_,
                 global_grid_spikes_, displacements_, send_buffer_size_, pc,
                 ring, h_requested, h_midslice, h_upd, h_dlv, h_gath, h_emit,
                 h_flight, h_handed, h_read, h_nspikes, exceptions_raised,
                 simulating_, sim_request, sim_outcome, h_phases>>

\* simulate calls in which no node throws and no signal arrives
NextSched ==
  \/ \E t \in 1..MaxSimSteps : Simulate(t)
  \/ \E t \in Threads : Deliver(t)
  \/ \E t \in Threads : UpdateNodes(t, 0, NodeGids)
  \/ MasterSection
  \/ \E t \in Threads : LoopTest(t)
  \/ SimulateReturn

SpecSched == InitSched /\ [][NextSched]_vars

\* the nodes that spike where signals and exceptions are considered
RunSpikingGids == {1}
\* the durations a caller may pass to simulate, in steps
Durations == (0 - 1)..MaxSimSteps

\* all connections have the same delay
InitRun ==
  /\ cm_min_delay \in 1..(MaxDelaySteps - 1)
  /\ cm_max_delay = cm_min_delay
  /\ InitNetwork
  /\ InitDelayChecker
  /\ InitBuffers
  /\ InitSourceTable

\* simulate calls with any duration, node updates that throw and signals
NextRun ==
  \/ \E t \in Durations : Simulate(t)
  \/ \E t \in Durations : SimulateRefused(t)
  \/ \E t \in Threads : Deliver(t)
  \/ \E t \in Threads : \E thrower \in {0} \cup NodeGids :
       UpdateNodes(t, thrower, RunSpikingGids)
  \/ MasterSection
  \/ \E t \in Threads : LoopTest(t)
  \/ SimulateReturn
  \/ RaiseSignal

SpecRun == InitRun /\ [][NextRun]_vars

\* C22: when a user signal ends the update loop while work remains, the
\* loop is left at a slice boundary (from_step_ = 0) with the clock and the
\* remaining to_do_ retained (clock_ + to_do_ is the time requested so far);
\* the spikes gathered before the end are those handed to the connections
\* at the first deliver of the following call; and a call that runs to its
\* end leaves the network time at the sum of all durations requested, so
\* simulate(additional) after the signal advances the time by the remaining
\* steps plus additional.
C22_ResumeAfterSignal ==
  /\ ((\A th \in Threads : pc[th] = "idle")
        /\ sim_outcome.kind = "SystemSignal" /\ to_do_ > 0)
       => (from_step_ = 0 /\ clock_ + to_do_ = h_requested)
  /\ ((\A th \in Threads : pc[th] = "idle") /\ sim_outcome.kind = "ok")
       => (to_do_ = 0 /\ clock_ + from_step_ = h_requested)
  /\ \A th \in Threads :
       (Len(h_dlv[th]) = Len(h_gath) + 1 /\ Len(h_gath) >= 1) =>
         LET flight == Concat([i \in 1..NumThreads |-> h_flight[i - 1]])
         IN /\ Len(h_handed[th]) = Len(flight)
            /\ \A e \in {h_handed[th][k] : k \in 1..Len(h_handed[th])} :
                 \E k \in 1..Len(flight) :
                   flight[k].gid = e.gid /\ flight[k].stamp = e.stamp

\* a call that follows a call ended by a signal with work remaining is in
\* its first slice, and a thread has been handed a spike gathered before
\* the signal ended the loop
C22_Witness ==
  /\ sim_outcome.kind = "running"
  /\ sim_request.resumed
  /\ to_do_ > sim_request.t
  /\ \E th \in Threads :
       Len(h_dlv[th]) = Len(h_gath) + 1 /\ h_handed[th] # <<>>

\* C23: an exception thrown by a node update stays in the slot of its
\* thread inside the parallel region and ends the loop after the current
\* iteration: no thread leaves the loop while another thread is still
\* inside an iteration and will wait for it at the barrier.
C23_LoopEndsAfterIteration ==
  \A a, b \in Threads :
    pc[a] = "done" => pc[b] \in {"test", "done"}

\* C24: every simulate call that has entered the update loop has run
\* finalize_simulation when it ends, however the loop ended.
C24_AlwaysFinalized ==
  ((\A th \in Threads : pc[th] = "idle") /\ "update" \in h_phases)
    => "finalize" \in h_phases

\* C25: simulate with the duration 0 returns at once and simulate with a
\* duration below one step raises KernelException; to_do_, clock_,
\* from_step_, to_step_, slice_ and simulated_ are unchanged and neither
\* prepare, update nor finalize is executed.
C25_RefusedDurations ==
  [][(sim_request'.op = "simulate" /\ sim_request'.t < 1)
       => (/\ sim_outcome'.kind =
                 (IF sim_request'.t = 0 THEN "return" ELSE "KernelException")
           /\ UNCHANGED <<to_do_, clock_, from_step_, to_step_, slice_,
                          simulated_, min_delay_, max_delay_, pc>>
           /\ h_phases' = {})]_vars

\* a negative duration has been refused after a simulation that ended
\* inside a slice
C25_Witness ==
  /\ sim_request.op = "simulate"
  /\ sim_request.t < 0
  /\ sim_outcome.kind = "KernelException"
  /\ simulated_
  /\ from_step_ # 0

\* C33: in update() no thread has left the loop while another thread waits
\* at the barrier after its node updates, and threads that are both at the
\* loop test or past the loop have executed the same iterations, also when
\* terminate_ is set by a captured exception or by the signal flag.
C33_ThreadsInStep ==
  \A a, b \in Threads :
    /\ pc[a] = "done" => pc[b] # "barrier"
    /\ (pc[a] \in {"test", "done"} /\ pc[b] \in {"test", "done"}) =>
         h_upd[a] = h_upd[b]

(***************************************************************************)
(* DelayChecker                                                            *)
(***************************************************************************)
\* the delays (in steps) a caller may request; 0 is below the resolution
RequestedDelays == 0..MaxDelaySteps

\* the test against the resolution, rejecting negative delays only
below_resolution_negative_only(new_delay) == new_delay < 0

\* assert_valid_delay_ms, line 165, and assert_two_valid_delays_steps, line
\* 208: the delay is shorter than one step
below_resolution(new_delay) == new_delay < resolution

\* the test after a simulation, against the shortest delay only
bad_sim_delay_min_only(ldelay, hdelay) ==
  has_been_simulated /\ ldelay < sim_min_delay

\* assert_valid_delay_ms, lines 170-180, and assert_two_valid_delays_steps,
\* lines 212-224: the kernel has simulated and the delays ldelay <= hdelay
\* leave the extrema used in the simulation
bad_sim_delay(ldelay, hdelay) ==
  has_been_simulated /\ (ldelay < sim_min_delay \/ hdelay > sim_max_delay)

\* update_delay_extrema that never raises the longest delay
update_delay_extrema_min_only(mn, mx, mindelay_cand, maxdelay_cand) ==
  << IF mindelay_cand < mn THEN mindelay_cand ELSE mn, mx >>

\* DelayChecker::update_delay_extrema on the extrema <<mn, mx>>
update_delay_extrema(mn, mx, mindelay_cand, maxdelay_cand) ==
  << IF mindelay_cand < mn THEN mindelay_cand ELSE mn,
     IF maxdelay_cand > mx THEN maxdelay_cand ELSE mx >>

\* the body of DelayChecker::assert_valid_delay_ms in a checker whose extrema
\* are mn and mx: ok is FALSE when BadDelay is thrown; min and max are the
\* extrema the call leaves behind
valid_delay_ms(mn, mx, new_delay) ==
  IF below_resolution(new_delay)
    THEN [ok |-> FALSE, min |-> mn, max |-> mx]
  ELSE IF bad_sim_delay(new_delay, new_delay)
    THEN [ok |-> FALSE, min |-> mn, max |-> mx]
  ELSE
    LET new_min_delay == new_delay < mn
        new_max_delay == new_delay > mx
    IN IF new_min_delay /\ user_set_delay_extrema_
         THEN [ok |-> FALSE, min |-> mn, max |-> mx]
       ELSE
         LET e1 == IF new_min_delay
                     THEN update_delay_extrema(mn, mx,
                                               new_delay, mx)
                     ELSE <<mn, mx>>
         IN IF new_max_delay /\ user_set_delay_extrema_
              THEN [ok |-> FALSE, min |-> e1[1], max |-> e1[2]]
            ELSE
              LET e2 == IF new_max_delay
                          THEN update_delay_extrema(e1[1], e1[2], e1[1], new_delay)
                          ELSE e1
              IN [ok |-> TRUE, min |-> e2[1], max |-> e2[2]]

\* assert_valid_delay_ms that checks only the lower pinned extremum
assert_valid_delay_ms_min_only(new_delay) ==
  IF below_resolution(new_delay)
    THEN [ok |-> FALSE, min |-> dc_min_delay_, max |-> dc_max_delay_]
  ELSE IF bad_sim_delay(new_delay, new_delay)
    THEN [ok |-> FALSE, min |-> dc_min_delay_, max |-> dc_max_delay_]
  ELSE
    LET new_min_delay == new_delay < dc_min_delay_
        new_max_delay == new_delay > dc_max_delay_
    IN IF new_min_delay /\ user_set_delay_extrema_
         THEN [ok |-> FALSE, min |-> dc_min_delay_, max |-> dc_max_delay_]
       ELSE
         LET e1 == IF new_min_delay
                     THEN update_delay_extrema(dc_min_delay_, dc_max_delay_,
                                               new_delay, dc_max_delay_)
                     ELSE <<dc_min_delay_, dc_max_delay_>>
             e2 == IF new_max_delay /\ ~user_set_delay_extrema_
                     THEN update_delay_extrema(e1[1], e1[2], e1[1], new_delay)
                     ELSE e1
         IN [ok |-> TRUE, min |-> e2[1], max |-> e2[2]]

\* DelayChecker::assert_valid_delay_ms on the extrema of the checker
assert_valid_delay_ms(new_delay) ==
  valid_delay_ms(dc_min_delay_, dc_max_delay_, new_delay)

\* assert_two_valid_delays_steps taking the first delay for the shorter one
assert_two_valid_delays_steps_as_given(new_delay1, new_delay2) ==
  LET ldelay == new_delay1
      hdelay == new_delay2
  IN
  IF below_resolution(ldelay)
    THEN [ok |-> FALSE, min |-> dc_min_delay_, max |-> dc_max_delay_]
  ELSE IF bad_sim_delay(ldelay, hdelay)
    THEN [ok |-> FALSE, min |-> dc_min_delay_, max |-> dc_max_delay_]
  ELSE
    LET new_min_delay == ldelay < dc_min_delay_
        new_max_delay == hdelay > dc_max_delay_
    IN IF new_min_delay /\ user_set_delay_extrema_
         THEN [ok |-> FALSE, min |-> dc_min_delay_, max |-> dc_max_delay_]
       ELSE
         LET e1 == IF new_min_delay
                     THEN update_delay_extrema(dc_min_delay_, dc_max_delay_,
                                               ldelay, dc_max_delay_)
                     ELSE <<dc_min_delay_, dc_max_delay_>>
         IN IF new_max_delay /\ user_set_delay_extrema_
              THEN [ok |-> FALSE, min |-> e1[1], max |-> e1[2]]
            ELSE
              LET e2 == IF new_max_delay
                          THEN update_delay_extrema(e1[1], e1[2], e1[1], hdelay)
                          ELSE e1
              IN [ok |-> TRUE, min |-> e2[1], max |-> e2[2]]

\* DelayChecker::assert_two_valid_delays_steps
assert_two_valid_delays_steps(new_delay1, new_delay2) ==
  LET ldelay == Min(new_delay1, new_delay2)
      hdelay == Max(new_delay1, new_delay2)
  IN
  IF below_resolution(ldelay)
    THEN [ok |-> FALSE, min |-> dc_min_delay_, max |-> dc_max_delay_]
  ELSE IF bad_sim_delay(ldelay, hdelay)
    THEN [ok |-> FALSE, min |-> dc_min_delay_, max |-> dc_max_delay_]
  ELSE
    LET new_min_delay == ldelay < dc_min_delay_
        new_max_delay == hdelay > dc_max_delay_
    IN IF new_min_delay /\ user_set_delay_extrema_
         THEN [ok |-> FALSE, min |-> dc_min_delay_, max |-> dc_max_delay_]
       ELSE
         LET e1 == IF new_min_delay
                     THEN update_delay_extrema(dc_min_delay_, dc_max_delay_,
                                               ldelay, dc_max_delay_)
                     ELSE <<dc_min_delay_, dc_max_delay_>>
         IN IF new_max_delay /\ user_set_delay_extrema_
              THEN [ok |-> FALSE, min |-> e1[1], max |-> e1[2]]
            ELSE
              LET e2 == IF new_max_delay
                          THEN update_delay_extrema(e1[1], e1[2], e1[1], hdelay)
                          ELSE e1
              IN [ok |-> TRUE, min |-> e2[1], max |-> e2[2]]

\* a connect with one delay: the delay is admitted, then the connection is
\* created; BadDelay leaves no connection
ConnectBody(d) ==
  /\ num_nodes > 1
  /\ Len(connections) < MaxConnections
  /\ dc_request' = [op |-> "connect", lo |-> d, hi |-> d]
  /\ LET r == assert_valid_delay_ms(d)
     IN /\ dc_min_delay_' = r.min
        /\ dc_max_delay_' = r.max
        /\ connections' = IF r.ok THEN Append(connections, d) ELSE connections
        /\ dc_outcome' = IF r.ok THEN "ok" ELSE "BadDelay"
  /\ UNCHANGED <<user_set_delay_extrema_, has_been_simulated, sim_min_delay,
                 sim_max_delay, num_nodes>>

\* a connect with one delay in the DelayChecker alone
Connect(d) ==
  /\ UNCHANGED nonDelayVars
  /\ ConnectBody(d)

\* a connect that admits two delays in one call and creates both connections
ConnectPair(d1, d2) ==
  /\ UNCHANGED nonDelayVars
  /\ num_nodes > 1
  /\ Len(connections) + 1 < MaxConnections
  /\ dc_request' = [op |-> "connect_pair", lo |-> Min(d1, d2), hi |-> Max(d1, d2)]
  /\ LET r == assert_two_valid_delays_steps(d1, d2)
     IN /\ dc_min_delay_' = r.min
        /\ dc_max_delay_' = r.max
        /\ connections' = IF r.ok THEN connections \o <<d1, d2>> ELSE connections
        /\ dc_outcome' = IF r.ok THEN "ok" ELSE "BadDelay"
  /\ UNCHANGED <<user_set_delay_extrema_, has_been_simulated, sim_min_delay,
                 sim_max_delay, num_nodes>>

\* the tests of set_status without the one for existing connections
set_status_refused_ignores_connections(min_delay, max_delay) ==
  min_delay < resolution \/ max_delay < resolution

\* the tests of set_status without the one of max_delay against the
\* resolution
set_status_refused_min_only(min_delay, max_delay) ==
  Len(connections) > 0 \/ min_delay < resolution

\* DelayChecker::set_status, lines 105-114: connections exist or one of the
\* new extrema is below the resolution
set_status_refused(min_delay, max_delay) ==
  Len(connections) > 0 \/ min_delay < resolution \/ max_delay < resolution

\* DelayChecker::set_status with a dictionary that holds min_delay iff
\* min_delay_updated and max_delay iff max_delay_updated; errors are logged.
\* The value read for a missing key is never used and is passed as 0.
DelaySetStatusBody(min_delay_updated, max_delay_updated, min_delay, max_delay) ==
  /\ dc_request' = [op |-> "set_status",
                    min_given |-> min_delay_updated, max_given |-> max_delay_updated,
                    min |-> IF min_delay_updated THEN min_delay ELSE -1,
                    max |-> IF max_delay_updated THEN max_delay ELSE -1]
  /\ IF min_delay_updated /\ max_delay_updated
       THEN IF set_status_refused(min_delay, max_delay)
              THEN /\ dc_outcome' = "logged"
                   /\ UNCHANGED <<dc_min_delay_, dc_max_delay_,
                                  user_set_delay_extrema_>>
              ELSE /\ dc_min_delay_' = min_delay
                   /\ dc_max_delay_' = max_delay
                   /\ user_set_delay_extrema_' = TRUE
                   /\ dc_outcome' = "set"
       ELSE /\ dc_outcome' = IF min_delay_updated # max_delay_updated
                               THEN "logged" ELSE "none"
            /\ UNCHANGED <<dc_min_delay_, dc_max_delay_, user_set_delay_extrema_>>
  /\ UNCHANGED <<connections, has_been_simulated, sim_min_delay, sim_max_delay,
                 num_nodes>>

\* DelayChecker::set_status in the DelayChecker alone
DelaySetStatus(min_delay_updated, max_delay_updated, min_delay, max_delay) ==
  /\ UNCHANGED nonDelayVars
  /\ DelaySetStatusBody(min_delay_updated, max_delay_updated, min_delay, max_delay)

\* a simulate call as the DelayChecker sees it: the kernel takes its delay
\* extrema from the checker (update_delay_extrema_) and has been simulated
DelaySimulateBody ==
  /\ has_been_simulated' = TRUE
  /\ sim_min_delay' = IF dc_min_delay_ = Time_pos_inf THEN resolution
                      ELSE dc_min_delay_
  /\ sim_max_delay' = dc_max_delay_
  /\ dc_outcome' = "none"
  /\ dc_request' = [op |-> "simulate"]
  /\ UNCHANGED <<dc_min_delay_, dc_max_delay_, user_set_delay_extrema_,
                 connections, num_nodes>>

\* a simulate call in the DelayChecker alone
DelaySimulate ==
  /\ UNCHANGED nonDelayVars
  /\ DelaySimulateBody

\* a node is created
CreateNode ==
  /\ UNCHANGED nonDelayVars
  /\ num_nodes < MaxNodes
  /\ num_nodes' = num_nodes + 1
  /\ dc_outcome' = "none"
  /\ dc_request' = [op |-> "create_node"]
  /\ UNCHANGED <<dc_min_delay_, dc_max_delay_, user_set_delay_extrema_,
                 connections, has_been_simulated, sim_min_delay, sim_max_delay>>

InitDelay ==
  /\ cm_min_delay = 1
  /\ cm_max_delay = 1
  /\ InitNetwork
  /\ InitDelayChecker
  /\ InitBuffers
  /\ InitSourceTable

NextDelay ==
  \/ \E d \in RequestedDelays : Connect(d)
  \/ \E d1, d2 \in RequestedDelays : ConnectPair(d1, d2)
  \/ \E mu, xu \in BOOLEAN :
       \E mn \in IF mu THEN RequestedDelays ELSE {0} :
         \E mx \in IF xu THEN RequestedDelays ELSE {0} :
           DelaySetStatus(mu, xu, mn, mx)
  \/ DelaySimulate
  \/ CreateNode

SpecDelay == InitDelay /\ [][NextDelay]_vars

\* two single admissions, of d1 and then of d2: ok iff both succeed; min and
\* max are the extrema the two calls leave behind
two_admissions(d1, d2) ==
  LET r1 == assert_valid_delay_ms(d1)
      r2 == valid_delay_ms(r1.min, r1.max, d2)
  IN [ok |-> r1.ok /\ r2.ok, min |-> r2.min, max |-> r2.max]

\* C30: every call of assert_two_valid_delays_steps with the delays d1, d2
\* succeeds exactly when the admission of d1 followed by the admission of d2
\* both succeed, and then leaves the min_delay and max_delay the two
\* admissions leave; it gives the same result for (d2, d1); and when it
\* fails it leaves the extrema unchanged.
C30_PairAsTwoAdmissions ==
  [][dc_request'.op = "connect_pair" =>
       LET lo == dc_request'.lo
           hi == dc_request'.hi
           s  == two_admissions(lo, hi)
           t  == two_admissions(hi, lo)
       IN /\ (dc_outcome' = "ok") = s.ok
          /\ (dc_outcome' = "ok") = t.ok
          /\ s.ok => /\ dc_min_delay_' = s.min /\ dc_max_delay_' = s.max
                     /\ dc_min_delay_' = t.min /\ dc_max_delay_' = t.max
          /\ assert_two_valid_delays_steps(lo, hi) =
               assert_two_valid_delays_steps(hi, lo)
          /\ dc_outcome' # "ok" => UNCHANGED <<dc_min_delay_, dc_max_delay_>>
     ]_vars

\* a pair of different delays has been admitted after a simulation, inside
\* the extrema the simulation used
C30_Witness ==
  /\ dc_request.op = "connect_pair"
  /\ dc_request.lo < dc_request.hi
  /\ dc_outcome = "ok"
  /\ has_been_simulated

\* a pair has been refused for its longer delay alone
C30_WitnessRefused ==
  /\ dc_request.op = "connect_pair"
  /\ dc_outcome = "BadDelay"
  /\ dc_request.lo >= resolution
  /\ dc_min_delay_ <= dc_request.lo
  /\ dc_request.hi > dc_max_delay_

\* C34: in every reachable DelayChecker state in which a delay has been
\* admitted or the extrema have been set by set_status,
\* min_delay_ <= max_delay_.
C34_ExtremaOrdered ==
  (Len(connections) > 0 \/ user_set_delay_extrema_) =>
    dc_min_delay_ <= dc_max_delay_

\* C4: in every state reached by connect and set_status calls (and simulate
\* calls between them), every connection created with an admitted delay d
\* has resolution <= d and min_delay_ <= d <= max_delay_ of the DelayChecker.
C4_AdmittedDelays ==
  \A i \in 1..Len(connections) :
    /\ resolution <= connections[i]
    /\ dc_min_delay_ <= connections[i]
    /\ connections[i] <= dc_max_delay_

\* connections exist under pinned extrema after a rejected connect and a
\* set_status call that came too late
C4_Witness ==
  /\ Len(connections) >= 2
  /\ user_set_delay_extrema_
  /\ has_been_simulated
  /\ dc_outcome = "logged"

\* the DelayChecker keeps its extrema and the pinned flag in this step
ExtremaUnchanged ==
  UNCHANGED <<dc_min_delay_, dc_max_delay_, user_set_delay_extrema_>>

\* the call of this step admits delays (a connect with one or two delays)
Admits == dc_request'.op \in {"connect", "connect_pair"}

\* C14: once simulate has run, admitting a delay shorter than the min_delay
\* or longer than the max_delay used in the simulation ends with BadDelay
\* and leaves min_delay_, max_delay_ and the pinned flag (and the
\* connections) as they were, pinned or not.
C14_RejectedAfterSimulate ==
  [][(has_been_simulated /\ Admits
        /\ (dc_request'.lo < sim_min_delay \/ dc_request'.hi > sim_max_delay))
       => (dc_outcome' = "BadDelay" /\ ExtremaUnchanged
             /\ connections' = connections)]_vars

\* after a simulation with unpinned extrema a connect with a delay of at
\* least one step, longer than the longest delay simulated, has ended with
\* BadDelay
C14_Witness ==
  /\ has_been_simulated
  /\ ~user_set_delay_extrema_
  /\ dc_request.op = "connect"
  /\ dc_request.lo >= resolution
  /\ dc_request.hi > sim_max_delay
  /\ sim_max_delay >= resolution
  /\ dc_outcome = "BadDelay"

\* C15: in every state a connect with a delay below one step ends with
\* BadDelay and leaves min_delay_, max_delay_ and user_set_delay_extrema_
\* (and the connections) exactly as they were.
C15_BelowResolution ==
  [][(Admits /\ dc_request'.lo < resolution)
       => (dc_outcome' = "BadDelay" /\ ExtremaUnchanged
             /\ connections' = connections)]_vars

\* a connect with the delays 0 and 1 has ended with BadDelay before any
\* simulation, the extrema unpinned and untouched
C15_Witness ==
  /\ ~has_been_simulated
  /\ ~user_set_delay_extrema_
  /\ dc_request.op = "connect_pair"
  /\ dc_request.lo < resolution
  /\ dc_request.hi >= resolution
  /\ dc_outcome = "BadDelay"
  /\ dc_min_delay_ = Time_pos_inf

\* C16: before any simulate, admitting delays of at least one step with
\* unpinned extrema succeeds and leaves min_delay_ = min(min_delay_, d) and
\* max_delay_ = max(max_delay_, d) (d, d from the initial +inf, -inf); with
\* pinned extrema it never changes them and ends with BadDelay exactly when
\* a delay lies outside [min_delay_, max_delay_].
C16_Widening ==
  [][(~has_been_simulated /\ Admits /\ dc_request'.lo >= resolution)
       => IF ~user_set_delay_extrema_
            THEN /\ dc_outcome' = "ok"
                 /\ dc_min_delay_' = Min(dc_min_delay_, dc_request'.lo)
                 /\ dc_max_delay_' = Max(dc_max_delay_, dc_request'.hi)
                 /\ user_set_delay_extrema_' = user_set_delay_extrema_
                 /\ ((dc_min_delay_ = Time_pos_inf /\ dc_max_delay_ = Time_neg_inf)
                       => (dc_min_delay_' = dc_request'.lo
                             /\ dc_max_delay_' = dc_request'.hi))
            ELSE /\ ExtremaUnchanged
                 /\ dc_outcome' = "BadDelay"
                      <=> (dc_request'.lo < dc_min_delay_
                             \/ dc_request'.hi > dc_max_delay_)]_vars

\* the first connect, with a delay of two steps or more, has made both
\* extrema that delay
C16_Witness ==
  /\ ~has_been_simulated
  /\ ~user_set_delay_extrema_
  /\ Len(connections) = 1
  /\ dc_request.op = "connect"
  /\ connections[1] > resolution
  /\ dc_min_delay_ = connections[1]
  /\ dc_max_delay_ = connections[1]

\* C17: set_status changes nothing and logs an error when a connection
\* exists, when one of the values is below the resolution or when only one
\* of min_delay, max_delay is given; only when both are given and none of
\* this applies are the extrema set to the given values and pinned.
C17_SetStatus ==
  [][dc_request'.op = "set_status"
       => IF dc_request'.min_given /\ dc_request'.max_given
               /\ Len(connections) = 0
               /\ dc_request'.min >= resolution /\ dc_request'.max >= resolution
            THEN /\ dc_min_delay_' = dc_request'.min
                 /\ dc_max_delay_' = dc_request'.max
                 /\ user_set_delay_extrema_'
                 /\ dc_outcome' = "set"
            ELSE /\ ExtremaUnchanged
                 /\ (dc_request'.min_given \/ dc_request'.max_given)
                      => dc_outcome' = "logged"]_vars

\* set_status with max_delay alone has been refused while the extrema were
\* pinned to other values
C17_Witness ==
  /\ dc_request.op = "set_status"
  /\ ~dc_request.min_given
  /\ dc_request.max_given
  /\ dc_request.max >= resolution
  /\ user_set_delay_extrema_
  /\ dc_request.max # dc_max_delay_
  /\ dc_outcome = "logged"

\* C18: after simulate has run once, the min_delay the scheduler uses (the
\* length of a slice) stays as it was, whatever set_status calls the user
\* makes before the next simulate.
C18_FrozenAfterSimulate ==
  [][has_been_simulated => sim_min_delay' = sim_min_delay]_vars

ResUnitsPerMs == 4
\* the values of the key resolution, 0 being below every tic
ResolutionValues == {0, 1, 2, 4}
\* the values of the key tics_per_ms
TicsPerMsValues == {2, 4, 8}
\* the values of the key time: 0.0 and a time that is not zero
TimeValues == {0, 1}
\* the value that stands for a key the dictionary does not hold
absent == 0 - 1

\* the tests of set_status that look at the nodes only
representation_frozen_nodes_only == k_size > 1

\* Network::set_status, lines 611-634: nodes besides the root exist, the
\* network has been simulated or connections exist
representation_frozen ==
  k_size > 1 \/ k_simulated \/ k_num_connections # 0

\* Network::set_status, lines 609-680, for the keys tics_per_ms and
\* resolution (absent or a value): the exception raised, if any, and the
\* time representation the call leaves behind
set_time_representation(tics_per_ms, resd) ==
  LET unchanged(outcome) ==
        [outcome |-> outcome, tics_per_ms |-> k_tics_per_ms,
         tics_per_step |-> k_tics_per_step]
  IN
  IF tics_per_ms = absent /\ resd = absent THEN unchanged("ok")
  ELSE IF representation_frozen THEN unchanged("KernelException")
  ELSE IF resd # absent /\ tics_per_ms # absent
    THEN IF resd * tics_per_ms < ResUnitsPerMs
           THEN unchanged("KernelException")
           ELSE [outcome |-> "ok", tics_per_ms |-> tics_per_ms,
                 tics_per_step |-> (resd * tics_per_ms) \div ResUnitsPerMs]
  ELSE IF resd # absent
    THEN IF resd * k_tics_per_ms < ResUnitsPerMs
           THEN unchanged("KernelException")
           ELSE [outcome |-> "ok", tics_per_ms |-> k_tics_per_ms,
                 tics_per_step |-> (resd * k_tics_per_ms) \div ResUnitsPerMs]
  ELSE unchanged("KernelException")

\* Network::set_status with a dictionary holding the keys time, tics_per_ms
\* and resolution (each absent or a value): a time that is not zero raises
\* BadProperty, time 0.0 resets a clock that has advanced, then the time
\* representation is set or the call raises KernelException
NetworkSetStatus(time, tics_per_ms, resd) ==
  /\ UNCHANGED nonKernelVars
  /\ k_request' = [op |-> "set_status", time |-> time,
                   tics_per_ms |-> tics_per_ms, resolution |-> resd]
  /\ IF time # absent /\ time # 0
       THEN /\ k_outcome' = "BadProperty"
            /\ UNCHANGED <<k_clock, k_tics_per_ms, k_tics_per_step>>
       ELSE LET r == set_time_representation(tics_per_ms, resd)
            IN /\ k_clock' = IF time # absent /\ k_clock > 0 THEN 0 ELSE k_clock
               /\ k_outcome' = r.outcome
               /\ k_tics_per_ms' = r.tics_per_ms
               /\ k_tics_per_step' = r.tics_per_step
  /\ UNCHANGED <<k_size, k_simulated, k_num_connections>>

\* a node is added to the network
KernelCreateNode ==
  /\ UNCHANGED nonKernelVars
  /\ k_size < MaxNodes
  /\ k_size' = k_size + 1
  /\ k_outcome' = "none"
  /\ k_request' = [op |-> "create_node"]
  /\ UNCHANGED <<k_simulated, k_num_connections, k_clock, k_tics_per_ms,
                 k_tics_per_step>>

\* a connection is created between nodes of the network
KernelConnect ==
  /\ UNCHANGED nonKernelVars
  /\ k_size > 1
  /\ k_num_connections < MaxConnections
  /\ k_num_connections' = k_num_connections + 1
  /\ k_outcome' = "none"
  /\ k_request' = [op |-> "connect"]
  /\ UNCHANGED <<k_size, k_simulated, k_clock, k_tics_per_ms, k_tics_per_step>>

\* simulate for one step: the network, even an empty one, has been
\* simulated afterwards
KernelSimulate ==
  /\ UNCHANGED nonKernelVars
  /\ k_clock < MaxSimSteps
  /\ k_clock' = k_clock + 1
  /\ k_simulated' = TRUE
  /\ k_outcome' = "none"
  /\ k_request' = [op |-> "simulate"]
  /\ UNCHANGED <<k_size, k_num_connections, k_tics_per_ms, k_tics_per_step>>

InitKernelSpec ==
  /\ cm_min_delay = 1
  /\ cm_max_delay = 1
  /\ InitNetwork
  /\ InitDelayChecker
  /\ InitBuffers
  /\ InitSourceTable

NextKernel ==
  \/ \E time \in TimeValues \cup {absent} :
       \E tics_per_ms \in TicsPerMsValues \cup {absent} :
         \E resd \in ResolutionValues \cup {absent} :
           NetworkSetStatus(time, tics_per_ms, resd)
  \/ KernelCreateNode
  \/ KernelConnect
  \/ KernelSimulate

SpecKernel == InitKernelSpec /\ [][NextKernel]_vars

C21_FailedCallNoEffect ==
  [][(k_request'.op = "set_status" /\ k_outcome' # "ok")
       => UNCHANGED <<k_size, k_simulated, k_num_connections, k_clock,
                      k_tics_per_ms, k_tics_per_step>>]_vars

(***************************************************************************)
(* Bulk connect: divergent_connect and convergent_connect                   *)
(***************************************************************************)
\* the nodes a bulk connect names
BulkGids == {1, 2}
\* what ConnectionManager::connect does for one connection: it creates it
\* ("none") or throws one of these exceptions
ConnectThrows ==
  {"none", "IllegalConnection", "UnknownReceptorType", "TypeMismatch", "BadDelay"}
\* the exceptions the loops of divergent_connect and convergent_connect catch
CaughtInLoop == {"IllegalConnection", "UnknownReceptorType", "TypeMismatch"}

\* the loop over the nodes of a bulk connect, from index i on: pairs[i] is
\* the connection <<source, target>> to create and throws[i] what connect
\* does for it; a caught exception is logged as a warning and the loop
\* continues, any other exception leaves the loop and the call
RECURSIVE connect_loop(_, _, _, _)
connect_loop(pairs, throws, i, acc) ==
  IF i > Len(pairs) THEN acc
  ELSE IF throws[i] = "none"
    THEN connect_loop(pairs, throws, i + 1,
                      [acc EXCEPT !.created = Append(@, pairs[i])])
  ELSE IF throws[i] \in CaughtInLoop
    THEN connect_loop(pairs, throws, i + 1,
                      [acc EXCEPT !.warnings = @ + 1])
  ELSE [acc EXCEPT !.outcome = throws[i]]

\* Network::divergent_connect( source_id, target_ids, ... ) with lists of
\* weights and delays of consistent sizes, all targets local
DivergentConnect(source_id, target_ids, throws) ==
  /\ UNCHANGED nonConnectVars
  /\ Len(throws) = Len(target_ids)
  /\ Len(bulk_connections) + Len(target_ids) <= MaxTargets
  /\ LET r == connect_loop([i \in 1..Len(target_ids) |-> <<source_id, target_ids[i]>>],
                           throws, 1,
                           [created |-> <<>>, warnings |-> 0, outcome |-> "ok"])
     IN /\ bulk_connections' = bulk_connections \o r.created
        /\ bulk_created' = r.created
        /\ bulk_warnings' = r.warnings
        /\ bulk_outcome' = r.outcome
  /\ bulk_request' = [op |-> "divergent_connect", source |-> source_id,
                      nodes |-> target_ids, throws |-> throws]

\* Network::convergent_connect( source_ids, target_id, ... ) with lists of
\* weights and delays of consistent sizes, the target local
ConvergentConnect(source_ids, target_id, throws) ==
  /\ UNCHANGED nonConnectVars
  /\ Len(throws) = Len(source_ids)
  /\ Len(bulk_connections) + Len(source_ids) <= MaxTargets
  /\ LET r == connect_loop([i \in 1..Len(source_ids) |-> <<source_ids[i], target_id>>],
                           throws, 1,
                           [created |-> <<>>, warnings |-> 0, outcome |-> "ok"])
     IN /\ bulk_connections' = bulk_connections \o r.created
        /\ bulk_created' = r.created
        /\ bulk_warnings' = r.warnings
        /\ bulk_outcome' = r.outcome
  /\ bulk_request' = [op |-> "convergent_connect", target |-> target_id,
                      nodes |-> source_ids, throws |-> throws]

NextConnect ==
  \/ \E n \in 1..MaxTargets :
       \E source_id \in BulkGids : \E target_ids \in [1..n -> BulkGids] :
         \E throws \in [1..n -> ConnectThrows] :
           DivergentConnect(source_id, target_ids, throws)
  \/ \E n \in 1..MaxTargets :
       \E target_id \in BulkGids : \E source_ids \in [1..n -> BulkGids] :
         \E throws \in [1..n -> ConnectThrows] :
           ConvergentConnect(source_ids, target_id, throws)

SpecConnect == InitKernelSpec /\ [][NextConnect]_vars

\* C26: in a bulk connect an error on one connection (unknown receptor,
\* illegal connection, bad delay) is logged as a warning and the connection
\* is skipped; every other connection of the call is created and the call
\* returns without an exception.
C26_ErrorsSkipped ==
  bulk_request.op \in {"divergent_connect", "convergent_connect"} =>
    /\ bulk_outcome = "ok"
    /\ Len(bulk_created) =
         Cardinality({i \in 1..Len(bulk_request.nodes) : bulk_request.throws[i] = "none"})
    /\ bulk_warnings =
         Cardinality({i \in 1..Len(bulk_request.nodes) : bulk_request.throws[i] # "none"})

(***************************************************************************)
(* Spike exchange between the processes                                     *)
(***************************************************************************)
\* GIDs of the spiking nodes in the exchange model
SpikingGids == {1, 2}
\* the values of min_delay in the exchange model
ExchangeMinDelays == {1, 2}

\* configure_spike_buffers_ on every rank, for a min_delay of mind
InitExchange ==
  /\ cm_min_delay = 1
  /\ cm_max_delay = 1
  /\ InitNetwork
  /\ InitDelayChecker
  /\ InitSourceTable
  /\ x_min_delay \in ExchangeMinDelays
  /\ x_clock = 0
  /\ x_register = [r \in Ranks |-> [t \in Threads |-> Fill(x_min_delay, <<>>)]]
  /\ x_local = [r \in Ranks |-> Fill(ConfiguredSendSize(x_min_delay), 0)]
  /\ x_global = [r \in Ranks |->
                   Fill(ConfiguredSendSize(x_min_delay) * NumRanks, 0)]
  /\ x_displacements = [r \in Ranks |-> Fill(NumRanks, 0)]
  /\ x_send_buffer_size = ConfiguredSendSize(x_min_delay)
  /\ x_pc = "update"
  /\ x_delivered = [r \in Ranks |-> [t \in Threads |-> FALSE]]
  /\ x_handed = [r \in Ranks |-> [t \in Threads |-> <<>>]]
  /\ x_sent = [r \in Ranks |-> [t \in Threads |-> Fill(x_min_delay, <<>>)]]
  /\ x_nspikes = 0

\* send_remote on rank r, thread t: the GID joins lag group lag of the register
ExchangeSend(r, t, lag, gid) ==
  /\ UNCHANGED nonExchangeVars
  /\ x_pc = "update"
  /\ x_nspikes < MaxSpikes
  /\ lag < x_min_delay
  /\ x_register' = [x_register EXCEPT ![r][t][lag + 1] = Append(@, gid)]
  /\ x_nspikes' = x_nspikes + 1
  /\ UNCHANGED <<x_min_delay, x_clock, x_local, x_global, x_displacements,
                 x_send_buffer_size, x_pc, x_delivered, x_handed, x_sent>>

\* the send buffers of ranks 0, 1, ... as a sequence
RankSeq(f) == [i \in 1..NumRanks |-> f[i - 1]]

\* gather_events_ on every rank (collocate_buffers_, then the collective
\* communicate), followed by the advance of the clock
ExchangeGather ==
  /\ UNCHANGED nonExchangeVars
  /\ x_pc = "update"
  /\ x_clock < MaxSlices * x_min_delay
  /\ LET loc == [r \in Ranks |->
                   collocate_buffers_(x_register[r], x_local[r],
                                      x_send_buffer_size, x_min_delay)]
         com == communicate(RankSeq(loc))
     IN /\ x_local' = loc
        /\ x_global' = [r \in Ranks |-> com.global]
        /\ x_displacements' = [r \in Ranks |-> com.displacements]
        /\ x_send_buffer_size' =
             Max(x_send_buffer_size, Max(Len(loc[0]), Len(loc[1])))
  /\ x_sent' = x_register
  /\ x_register' = [r \in Ranks |-> ClearRegister(x_register[r])]
  /\ x_clock' = x_clock + x_min_delay
  /\ x_pc' = "deliver"
  /\ x_delivered' = [r \in Ranks |-> [t \in Threads |-> FALSE]]
  /\ UNCHANGED <<x_min_delay, x_handed, x_nspikes>>

\* deliver_events_( t ) on rank r at the beginning of the next slice
ExchangeDeliver(r, t) ==
  /\ UNCHANGED nonExchangeVars
  /\ x_pc = "deliver"
  /\ ~x_delivered[r][t]
  /\ x_handed' = [x_handed EXCEPT ![r][t] =
                    deliver_events_(x_global[r], x_displacements[r],
                                    NumThreads * NumRanks, NumRanks, x_clock,
                                    x_min_delay)]
  /\ x_delivered' = [x_delivered EXCEPT ![r][t] = TRUE]
  /\ UNCHANGED <<x_min_delay, x_clock, x_register, x_local, x_global,
                 x_displacements, x_send_buffer_size, x_pc, x_sent, x_nspikes>>

\* all threads of all ranks have delivered: the node updates of the slice
ExchangeUpdate ==
  /\ UNCHANGED nonExchangeVars
  /\ x_pc = "deliver"
  /\ \A r \in Ranks : \A t \in Threads : x_delivered[r][t]
  /\ x_pc' = "update"
  /\ UNCHANGED <<x_min_delay, x_clock, x_register, x_local, x_global,
                 x_displacements, x_send_buffer_size, x_delivered, x_handed,
                 x_sent, x_nspikes>>

NextExchange ==
  \/ \E r \in Ranks : \E t \in Threads : \E lag \in 0..(x_min_delay - 1) :
       \E gid \in SpikingGids : ExchangeSend(r, t, lag, gid)
  \/ ExchangeGather
  \/ \E r \in Ranks : \E t \in Threads : ExchangeDeliver(r, t)
  \/ ExchangeUpdate

SpecExchange == InitExchange /\ [][NextExchange]_vars

\* the spikes registered in sent, as deliver_events_ has to hand them on:
\* vps ascending (vp = thread * NumRanks + rank), within a vp the lag groups
\* ascending, within a lag group the order of registration; a spike of lag
\* group j carries the stamp Network::send gave it in the slice at origin
RegisteredEvents(sent, origin, mind) ==
  Concat([v \in 1..(NumThreads * NumRanks) |->
    LET r == (v - 1) % NumRanks
        t == (v - 1) \div NumRanks
    IN Concat([j \in 1..mind |->
         [k \in 1..Len(sent[r][t][j]) |->
            [gid |-> sent[r][t][j][k], stamp |-> origin + (j - 1) + 1]]])])

\* C7: for every content of the registers, collocate_buffers_, the exchange
\* and deliver_events_ hand to every thread of every rank exactly the
\* registered spikes, each once, vp by vp in the order of the register (lag
\* groups ascending, order of registration within a group), each spike of lag
\* group j with the stamp of lag j.
C7_RoundTrip ==
  \A r \in Ranks : \A t \in Threads :
    (x_pc = "deliver" /\ x_delivered[r][t]) =>
      x_handed[r][t] =
        RegisteredEvents(x_sent, x_clock - x_min_delay, x_min_delay)

\* in the second or a later slice, spikes of lag 0 on rank 0 and of lag 1 on
\* rank 1 have been decoded by all threads
C7_Witness ==
  /\ x_pc = "deliver"
  /\ x_min_delay >= 2
  /\ x_clock >= 2 * x_min_delay
  /\ \A r \in Ranks : \A t \in Threads : x_delivered[r][t]
  /\ \E t \in Threads : x_sent[0][t][1] # <<>>
  /\ \E t \in Threads : x_sent[1][t][2] # <<>>

(***************************************************************************)
(* Properties of the scheduler                                             *)
(***************************************************************************)
Idle == \A t \in Threads : pc[t] = "idle"

\* thread t has run deliver_events_ for the slice that follows the last gather
DeliveredThisSlice(t) == Len(h_dlv[t]) = Len(h_gath) + 1

\* the spikes of flight in the order of the send buffer: threads ascending,
\* within a thread the lags ascending, within a lag the order of sending
ExpectedHanded(flight, mind) ==
  Concat([i \in 1..NumThreads |->
    Concat([j \in 1..mind |->
      SelectSeq(flight[i - 1], LAMBDA e : e.lag = j - 1)])])

\* the send buffer for the spikes of flight
ExpectedBuffer(flight, mind) ==
  Concat([i \in 1..NumThreads |->
    Concat([j \in 1..mind |->
      LET grp == SelectSeq(flight[i - 1], LAMBDA e : e.lag = j - 1)
      IN [k \in 1..Len(grp) |-> grp[k].gid] \o <<comm_marker_>>])])

\* C1: over any sequence of simulate calls every thread updates the steps
\* 0, 1, 2, ... exactly once each in increasing order; every thread runs
\* deliver_events_ once per slice, at the slice origins 0, min_delay, ... in
\* order and before it updates a step of that slice; gather_events_ runs once
\* per slice after all threads have updated all its steps and before any step
\* of the next slice is updated or delivered; the clock is the number of
\* gathered slices times min_delay.
C1_SliceOrder ==
  /\ \A i \in 1..Len(h_gath) : h_gath[i] = (i - 1) * min_delay_
  /\ clock_ = Len(h_gath) * min_delay_
  /\ \A t \in Threads :
       /\ \A i \in 1..Len(h_upd[t]) : h_upd[t][i] = i - 1
       /\ \A i \in 1..Len(h_dlv[t]) : h_dlv[t][i] = (i - 1) * min_delay_
       /\ Len(h_upd[t]) <= Len(h_dlv[t]) * min_delay_
       /\ Len(h_dlv[t]) <= Len(h_gath) + 1
       /\ Len(h_gath) * min_delay_ <= Len(h_upd[t])
       /\ Len(h_upd[t]) <= (Len(h_gath) + 1) * min_delay_
       /\ (Idle => Len(h_upd[t]) = h_requested)

\* two simulate calls, the first ending inside a slice, with min_delay >= 2
C1_Witness ==
  Idle /\ h_midslice /\ min_delay_ >= 2 /\ Len(h_gath) >= 2

\* C2: a spike sent at lag L of the slice with origin T is not among the
\* events handed to connections while it waits in the register; the events a
\* thread hands to its connections at the start of the following slice
\* (clock T + min_delay) are exactly the spikes of the last gather, stamped
\* T + L + 1 as Network::send stamped them; every pending arrival lies at
\* least min_delay after its emission step and at a step not yet updated.
C2_SpikeDelivery ==
  \A t \in Threads :
    /\ (Len(h_gath) = 0 => h_handed[t] = <<>>)
    /\ (DeliveredThisSlice(t) /\ Len(h_gath) >= 1 =>
          LET exp == ExpectedHanded(h_flight, min_delay_)
          IN /\ Len(h_handed[t]) = Len(exp)
             /\ \A k \in 1..Len(exp) :
                  /\ h_handed[t][k].gid = exp[k].gid
                  /\ h_handed[t][k].stamp = exp[k].origin + exp[k].lag + 1
                  /\ h_handed[t][k].stamp = exp[k].stamp
                  /\ h_dlv[t][Len(h_dlv[t])] = exp[k].origin + min_delay_)
    /\ \A u \in Threads : \A i \in 1..Len(h_emit[u]) :
         \A k \in 1..Len(h_handed[t]) :
           ~(h_handed[t][k].gid = h_emit[u][i].gid
              /\ h_handed[t][k].stamp >= h_emit[u][i].origin + h_emit[u][i].lag + 1)
    /\ \A b \in 1..Len(ring[t]) : \A e \in ring[t][b] :
         /\ e.arrive >= e.emit + min_delay_
         /\ \A i \in 1..Len(h_upd[t]) : h_upd[t][i] # e.arrive

\* a thread has been handed a spike sent at a lag >= 1 and holds its arrivals
C2_Witness ==
  \E t \in Threads :
    /\ DeliveredThisSlice(t)
    /\ \E k \in 1..Len(h_handed[t]) : h_handed[t][k].stamp < clock_
    /\ \E b \in 1..Len(ring[t]) : ring[t][b] # {}

\* C3: after every simulate call that has returned, to_do_ is 0 and the
\* network time clock_ + from_step_ is the sum of the requested durations.
C3_NetworkTime ==
  Idle => (to_do_ = 0 /\ clock_ + from_step_ = h_requested)

\* a call has returned inside a slice and a later call at a slice boundary
C3_Witness ==
  Idle /\ h_midslice /\ from_step_ = 0 /\ h_requested >= 4

\* C5: once prepared, moduli_ has min_delay + max_delay entries and is a
\* permutation of 0 .. min_delay+max_delay-1; all arrivals pending in one
\* bin of a ring buffer are for the same step, no pending arrival lies in
\* the past, and every entry an update reads from a bin at step s is an
\* arrival for step s.
C5_RingBins ==
  simulated_ =>
    /\ Len(moduli_) = min_delay_ + max_delay_
    /\ {moduli_[i] : i \in 1..Len(moduli_)} = 0..(min_delay_ + max_delay_ - 1)
    /\ \A t \in Threads :
         /\ \A b \in 1..Len(ring[t]) : \A e1, e2 \in ring[t][b] :
              /\ e1.arrive = e2.arrive
              /\ e1.arrive >= Len(h_upd[t])
         /\ \A e \in h_read[t] : e.at = e.arrive

\* an arrival over a connection of delay max_delay > min_delay has been read
\* from a bin after the table has wrapped around
C5_Witness ==
  \E t \in Threads : \E e \in h_read[t] :
    /\ e.arrive - e.emit = max_delay_
    /\ max_delay_ > min_delay_
    /\ e.arrive >= min_delay_ + max_delay_

\* C6: after every advance of the clock the tables are those init_moduli_
\* computes at the new clock: moduli_[d] = (clock + d) mod (min+max) and
\* slice_moduli_[d] = ((clock + d) div min) mod ceil((min+max)/min).
C6_ModuliAsInit ==
  simulated_ =>
    LET n  == min_delay_ + max_delay_
        nb == IF n % min_delay_ = 0 THEN n \div min_delay_ ELSE n \div min_delay_ + 1
    IN /\ Len(moduli_) = n
       /\ Len(slice_moduli_) = n
       /\ \A d \in 0..(n - 1) :
            /\ At(moduli_, d) = (clock_ + d) % n
            /\ At(slice_moduli_, d) = ((clock_ + d) \div min_delay_) % nb

\* two slices completed with max_delay not a multiple of min_delay >= 2
C6_Witness ==
  slice_ >= 2 /\ min_delay_ >= 2 /\ max_delay_ % min_delay_ # 0

\* C8: whatever the interleaving of the threads, the send buffer written by
\* a gather is the function ExpectedBuffer of the per-thread sequences of
\* sent spikes, and the events every thread hands to its connections at the
\* following deliver are the function ExpectedHanded of them.
C8_Deterministic ==
  Len(h_gath) >= 1 =>
    LET buf == ExpectedBuffer(h_flight, min_delay_)
        exp == ExpectedHanded(h_flight, min_delay_)
    IN /\ Len(local_grid_spikes_) >= Len(buf)
       /\ SubSeq(local_grid_spikes_, 1, Len(buf)) = buf
       /\ \A t \in Threads :
            DeliveredThisSlice(t) =>
              h_handed[t] = [k \in 1..Len(exp) |->
                               [gid |-> exp[k].gid, stamp |-> exp[k].stamp]]

\* both threads have sent spikes in one slice and both have been handed them
C8_Witness ==
  /\ \A t \in Threads : h_flight[t] # <<>> /\ DeliveredThisSlice(t)
  /\ Len(h_gath) >= 1

(***************************************************************************)
(* SourceTable: construction of the target table                           *)
(***************************************************************************)
\* the GIDs of the source neurons in the SourceTable
SourceGids == {1, 2}
\* MPIManager::get_rank() of the process that holds the table
own_rank == 0
\* NodeManager::get_process_id_of_gid
get_process_id_of_gid(gid) == (gid % (NumThreads * NumRanks)) % NumRanks
\* VPManager::gid_to_lid
gid_to_lid(gid) == gid \div (NumThreads * NumRanks)
\* thread of the source neuron on its own rank
source_thread(gid) == (gid % (NumThreads * NumRanks)) \div NumRanks
\* the ranks [rank_start, rank_end) thread t is responsible for
rank_start(t) == t
rank_end(t) == t + 1

\* the local ids of the source neurons on their ranks
Lids == {gid_to_lid(g) : g \in SourceGids}

\* thread 0 holds a vector of a primary synapse type (syn_index 0) and one
\* of a secondary type (syn_index 1), thread 1 a vector of a primary type
is_primary_type(syn_index) == syn_index = 0

\* the positions (tid, syn_index, lcid) of the table src
Positions(src) ==
  {p \in Threads \X (0..1) \X (0..(MaxVecLen - 1)) :
     /\ p[2] < Len(src[p[1]])
     /\ p[3] < Len(src[p[1]][p[2] + 1])}

\* the sequences of at most n GIDs
GidVectors(n) == UNION {[1..k -> SourceGids] : k \in 0..n}

\* SourceTable::reset_entry_point: the last entry of the table src
EntryPoint(src) ==
  LET tid == NumThreads - 1
      syn == Len(src[tid]) - 1
      lc  == IF syn >= 0 THEN Len(src[tid][syn + 1]) - 1 ELSE -1
  IN [tid |-> tid, syn_index |-> syn, lcid |-> lc]

\* a SourceTable as the connection phase leaves it: nothing processed, some
\* entries disabled, every vector sorted up to one of the lengths SortedTo
\* (or to its end, where it is shorter)
InitSourceTableSortedTo(SortedTo) ==
  /\ cm_min_delay = 1
  /\ cm_max_delay = 1
  /\ InitNetwork
  /\ InitDelayChecker
  /\ InitBuffers
  /\ \E v00, v01, v10 \in GidVectors(MaxVecLen) :
       /\ Len(v00) + Len(v01) + Len(v10) <= MaxSources
       /\ LET gids == [tid \in Threads |->
                         IF tid = 0 THEN <<v00, v01>> ELSE <<v10>>]
          IN \E dis \in SUBSET Positions(gids) : \E sorted \in SortedTo :
               /\ Cardinality(dis) <= MaxDisabled
               /\ sources_ =
                    [tid \in Threads |->
                       [syn \in 1..Len(gids[tid]) |->
                          [l \in 1..Len(gids[tid][syn]) |->
                             [gid       |-> gids[tid][syn][l],
                              processed |-> FALSE,
                              disabled  |-> <<tid, syn - 1, l - 1>> \in dis,
                              primary   |-> is_primary_type(syn - 1)]]]]
               /\ last_sorted_source_ =
                    [tid \in Threads |->
                       [syn \in 1..Len(gids[tid]) |->
                          Min(sorted, Len(gids[tid][syn]))]]
               /\ subsequent_targets =
                    [tid \in Threads |->
                       [syn \in 1..Len(gids[tid]) |->
                          [l \in 1..Len(gids[tid][syn]) |-> FALSE]]]
               /\ current_positions_ = [t \in Threads |-> EntryPoint(gids)]
               /\ h_marked =
                    [tid \in Threads |->
                       [syn \in 1..Len(gids[tid]) |->
                          [l \in 1..Len(gids[tid][syn]) |-> <<>>]]]
  /\ target_data = [t \in Threads |-> <<>>]
  /\ build_done = [t \in Threads |-> FALSE]
  /\ targets_ = [r \in Ranks |-> [tid \in Threads |-> [lid \in Lids |-> <<>>]]]
  /\ target_table_built = FALSE
  /\ h_send = <<>>
  /\ InitPacked

\* the vectors either never sorted or sorted to their end
InitSourceTableBuilt == InitSourceTableSortedTo({0, MaxVecLen})

\* the table after the connection phase, no position saved yet
InitBuild ==
  /\ InitSourceTableBuilt
  /\ saved_positions_ =
       [t \in Threads |-> [tid |-> -1, syn_index |-> -1, lcid |-> -1]]
  /\ clean_request = [op |-> "none"]

\* ConnectionManager::set_has_source_subsequent_targets
set_has_source_subsequent_targets(flg, tid, syn_index, lcid, subsequent) ==
  [flg EXCEPT ![tid][syn_index + 1][lcid + 1] = subsequent]

\* get_next_target_data, lines 89-95, stopping one entry early
behind_last_sorted_or_at(lcid, last_sorted, size) ==
  lcid <= last_sorted /\ last_sorted < size

\* get_next_target_data, lines 89-95: the cursor is below the last sorted
\* source of a vector that has grown since it was sorted
behind_last_sorted(lcid, last_sorted, size) ==
  lcid < last_sorted /\ last_sorted < size

\* get_next_target_data, line 119, with the upper end of the range unchecked
outside_rank_range_lower_only(t, target_rank) ==
  target_rank < rank_start(t)

\* get_next_target_data, line 119: the source's rank target_rank is not one
\* of the ranks thread t is responsible for
outside_rank_range(t, target_rank) ==
  target_rank < rank_start(t) \/ target_rank >= rank_end(t)

\* get_next_target_data, lines 135-141, reading one entry past the end of
\* the vector, where it may find any GID
next_has_same_source_past_end(vec, lcid, gid) ==
  lcid + 1 <= Len(vec)
    /\ (lcid + 1 < Len(vec) => vec[lcid + 2].gid = gid)

\* get_next_target_data, lines 135-141: the entry following lcid exists and
\* has the source gid
next_has_same_source(vec, lcid, gid) ==
  lcid + 1 < Len(vec) /\ vec[lcid + 2].gid = gid

\* get_next_target_data, lines 166-201, storing the thread of the source
\* neuron in the Target instead of the thread of the table
NextTargetData_source_tid(pos, cur) ==
  [source_gid |-> cur.gid,
   lid        |-> gid_to_lid(cur.gid),
   tid        |-> source_thread(cur.gid),
   is_primary |-> cur.primary,
   target     |-> IF cur.primary
                    THEN [tid |-> source_thread(cur.gid), rank |-> own_rank,
                          syn_index |-> pos.syn_index, lcid |-> pos.lcid,
                          processed |-> FALSE]
                    ELSE [send_buffer_pos_of |->
                            <<pos.tid, pos.syn_index, pos.lcid>>],
   at         |-> <<pos.tid, pos.syn_index, pos.lcid>>]

\* the TargetData get_next_target_data fills in at position pos for the
\* source cur; a secondary source gets a send buffer position written over
\* the Target, whose fields are not set
NextTargetData(pos, cur) ==
  [source_gid |-> cur.gid,
   lid        |-> gid_to_lid(cur.gid),
   tid        |-> source_thread(cur.gid),
   is_primary |-> cur.primary,
   target     |-> IF cur.primary
                    THEN [tid |-> pos.tid, rank |-> own_rank,
                          syn_index |-> pos.syn_index, lcid |-> pos.lcid,
                          processed |-> FALSE]
                    ELSE [send_buffer_pos_of |->
                            <<pos.tid, pos.syn_index, pos.lcid>>],
   at         |-> <<pos.tid, pos.syn_index, pos.lcid>>]

\* SourceTable::get_next_target_data( t, rank_start, rank_end, .. ): the
\* while loop from the cursor pos on the table src with the flags flg;
\* ret is the value returned, td the TargetData when ret is TRUE
RECURSIVE get_next_target_data(_, _, _, _)
get_next_target_data(t, pos, src, flg) ==
  IF pos.lcid < 0
    THEN IF pos.syn_index - 1 >= 0
           THEN get_next_target_data(t,
                  [pos EXCEPT !.syn_index = pos.syn_index - 1,
                              !.lcid = Len(src[pos.tid][pos.syn_index]) - 1],
                  src, flg)
         ELSE IF pos.tid - 1 >= 0
           THEN LET ntid == pos.tid - 1
                    nsyn == Len(src[ntid]) - 1
                IN get_next_target_data(t,
                     [tid |-> ntid, syn_index |-> nsyn,
                      lcid |-> IF nsyn >= 0 THEN Len(src[ntid][nsyn + 1]) - 1
                               ELSE pos.lcid],
                     src, flg)
         ELSE [ret |-> FALSE,
               pos |-> [pos EXCEPT !.syn_index = pos.syn_index - 1,
                                   !.tid = pos.tid - 1],
               src |-> src, flg |-> flg, td |-> <<>>]
  ELSE
    LET vec    == src[pos.tid][pos.syn_index + 1]
        sorted == last_sorted_source_[pos.tid][pos.syn_index + 1]
        cur    == vec[pos.lcid + 1]
        down   == [pos EXCEPT !.lcid = pos.lcid - 1]
    IN IF behind_last_sorted(pos.lcid, sorted, Len(vec))
         THEN [ret |-> FALSE, pos |-> pos, src |-> src, flg |-> flg, td |-> <<>>]
       ELSE IF cur.processed \/ cur.disabled
         THEN get_next_target_data(t, down, src, flg)
       ELSE IF outside_rank_range(t, get_process_id_of_gid(cur.gid))
         THEN get_next_target_data(t, down, src, flg)
       ELSE
         LET src2 == [src EXCEPT
                        ![pos.tid][pos.syn_index + 1][pos.lcid + 1].processed = TRUE]
             flg2 == set_has_source_subsequent_targets(flg, pos.tid,
                       pos.syn_index, pos.lcid,
                       next_has_same_source(vec, pos.lcid, cur.gid))
         IN IF pos.lcid - 1 > -1 /\ vec[pos.lcid].gid = cur.gid
               /\ ~vec[pos.lcid].processed
              THEN get_next_target_data(t, down, src2, flg2)
              ELSE [ret |-> TRUE, pos |-> down, src |-> src2, flg |-> flg2,
                    td |-> <<NextTargetData(pos, cur)>>]

\* thread t calls get_next_target_data once more; a TRUE result hands the
\* TargetData on, a FALSE result ends the construction for this thread
GetNextTargetData(t) ==
  /\ UNCHANGED nonBuildVars
  /\ ~build_done[t]
  /\ LET r == get_next_target_data(t, current_positions_[t], sources_,
                                   subsequent_targets)
     IN /\ current_positions_' = [current_positions_ EXCEPT ![t] = r.pos]
        /\ sources_' = r.src
        /\ subsequent_targets' = r.flg
        /\ target_data' = [target_data EXCEPT ![t] = @ \o r.td]
        /\ build_done' = [build_done EXCEPT ![t] = ~r.ret]
        /\ h_marked' =
             [tid \in Threads |->
                [syn \in 1..Len(sources_[tid]) |->
                   [l \in 1..Len(sources_[tid][syn]) |->
                      IF r.src[tid][syn][l].processed
                           /\ ~sources_[tid][syn][l].processed
                        THEN Append(h_marked[tid][syn][l], t)
                        ELSE h_marked[tid][syn][l]]]]
  /\ UNCHANGED <<last_sorted_source_, targets_, target_table_built, h_send>>

\* get_next_target_data has returned false for every thread
BuildFinished == \A t \in Threads : build_done[t]

\* the primary TargetData of tds whose source is the neuron (rank, tid, lid)
RECURSIVE TargetsFor(_, _, _, _)
TargetsFor(tds, rank, tid, lid) ==
  IF tds = <<>> THEN <<>>
  ELSE LET td == Head(tds)
       IN (IF td.is_primary /\ get_process_id_of_gid(td.source_gid) = rank
               /\ td.tid = tid /\ td.lid = lid
             THEN <<td.target>> ELSE <<>>)
          \o TargetsFor(Tail(tds), rank, tid, lid)

\* the TargetData of all threads, in the order of the threads
AllTargetData == Concat([i \in 1..NumThreads |-> target_data[i - 1]])

\* once every thread has produced its share, the TargetData are delivered
\* to the rank of their source, which appends each Target to
\* TargetTable[tid][lid] of the source neuron (add_target)
CommunicateTargetData ==
  /\ UNCHANGED nonBuildVars
  /\ BuildFinished
  /\ ~target_table_built
  /\ targets_' = [r \in Ranks |-> [tid \in Threads |-> [lid \in Lids |->
                    targets_[r][tid][lid] \o TargetsFor(AllTargetData, r, tid, lid)]]]
  /\ target_table_built' = TRUE
  /\ UNCHANGED <<sources_, last_sorted_source_, current_positions_,
                 subsequent_targets, target_data, build_done, h_marked, h_send>>

\* Connector::send at lcid + lcid_offset and the loop of send_5g around it:
\* the lcids the event is delivered to, in order; past_end tells that the
\* loop has indexed beyond the connection vector
RECURSIVE send_5g(_, _, _, _)
send_5g(flags, lcid, lcid_offset, acc) ==
  IF lcid + lcid_offset >= Len(flags)
    THEN [delivered |-> acc, past_end |-> TRUE]
  ELSE IF flags[lcid + lcid_offset + 1]
    THEN send_5g(flags, lcid, lcid_offset + 1, Append(acc, lcid + lcid_offset))
  ELSE [delivered |-> Append(acc, lcid + lcid_offset), past_end |-> FALSE]

\* an event of a spike of the neuron (rank, tid, lid) is sent to one of the
\* Targets of the neuron
Send(rank, tid, lid, i) ==
  /\ UNCHANGED nonBuildVars
  /\ target_table_built
  /\ i \in 1..Len(targets_[rank][tid][lid])
  /\ LET tg == targets_[rank][tid][lid][i]
         r  == send_5g(subsequent_targets[tg.tid][tg.syn_index + 1], tg.lcid,
                       0, <<>>)
     IN h_send' = <<[tid |-> tg.tid, syn_index |-> tg.syn_index,
                     lcid |-> tg.lcid, delivered |-> r.delivered,
                     past_end |-> r.past_end]>>
  /\ UNCHANGED <<sources_, last_sorted_source_, current_positions_,
                 subsequent_targets, target_data, build_done, targets_,
                 target_table_built, h_marked>>

NextBuild ==
  \/ \E t \in Threads : GetNextTargetData(t)
  \/ CommunicateTargetData
  \/ \E rank \in Ranks : \E tid \in Threads : \E lid \in Lids :
       \E i \in 1..MaxSources : Send(rank, tid, lid, i)

SpecBuild == InitBuild /\ [][NextBuild]_vars

\* the entry at lcid of vec is followed by an entry of the same source
HasSubsequentSameSource(vec, lcid) ==
  lcid + 1 < Len(vec) /\ vec[lcid + 2].gid = vec[lcid + 1].gid

\* C9: once the construction has finished, in every (tid, syn_index) vector
\* the flag has_subsequent_same_source of an entry is true exactly if the
\* entry is a non-last member of its run of equal source GIDs.
C9_SubsequentFlags ==
  BuildFinished =>
    \A p \in Positions(sources_) :
      subsequent_targets[p[1]][p[2] + 1][p[3] + 1]
        = HasSubsequentSameSource(sources_[p[1]][p[2] + 1], p[3])

\* the maximal runs of equal source GIDs of the table, as <<tid, syn_index,
\* first lcid, last lcid>>
Runs ==
  {r \in Threads \X (0..1) \X (0..(MaxVecLen - 1)) \X (0..(MaxVecLen - 1)) :
     /\ <<r[1], r[2], r[3]>> \in Positions(sources_)
     /\ <<r[1], r[2], r[4]>> \in Positions(sources_)
     /\ r[3] <= r[4]
     /\ LET vec == sources_[r[1]][r[2] + 1]
        IN /\ \A l \in r[3]..r[4] : vec[l + 1].gid = vec[r[3] + 1].gid
           /\ (r[3] > 0 => vec[r[3]].gid # vec[r[3] + 1].gid)
           /\ ~HasSubsequentSameSource(vec, r[4])}

\* the TargetData returned from inside the run r, as <<thread, index>>
EmittedFor(r) ==
  {e \in Threads \X (1..MaxSources) :
     /\ e[2] <= Len(target_data[e[1]])
     /\ LET at == target_data[e[1]][e[2]].at
        IN at[1] = r[1] /\ at[2] = r[2] /\ at[3] \in r[3]..r[4]}

\* the run r holds a connection that is not disabled
HasLiveEntry(r) ==
  \E l \in r[3]..r[4] : ~sources_[r[1]][r[2] + 1][l + 1].disabled

\* C10: once the construction has finished, for every maximal run of
\* entries with the same source GID (all unprocessed before the
\* construction, at least one of them not disabled) exactly one TargetData
\* has been returned, and its Target holds the tid of the table, the own
\* rank, the syn_index and the lowest lcid of the run.
C10_OneTargetDataPerRun ==
  BuildFinished =>
    \A r \in Runs :
      HasLiveEntry(r) =>
      /\ Cardinality(EmittedFor(r)) = 1
      /\ \A e \in EmittedFor(r) :
           LET td == target_data[e[1]][e[2]]
           IN /\ td.is_primary
              /\ td.target = [tid |-> r[1], rank |-> own_rank,
                              syn_index |-> r[2], lcid |-> r[3],
                              processed |-> FALSE]

\* the elements of the sequence q
Range(q) == {q[i] : i \in 1..Len(q)}

\* the Source at position p = <<tid, syn_index, lcid>> of the table
SourceAt(p) == sources_[p[1]][p[2] + 1][p[3] + 1]

\* the TargetTable entry of the neuron gid on the rank that owns it
TargetTableOf(gid) ==
  targets_[get_process_id_of_gid(gid)][source_thread(gid)][gid_to_lid(gid)]

\* the Target that addresses position p of the table of this rank
TargetOf(p) ==
  [tid |-> p[1], rank |-> own_rank, syn_index |-> p[2], lcid |-> p[3],
   processed |-> FALSE]

\* the primary connections of the neuron gid held by this rank
PrimaryConnections(gid) ==
  {p \in Positions(sources_) : SourceAt(p).gid = gid /\ SourceAt(p).primary}

\* the primary connections of the neuron gid that are not disabled and are
\* not preceded, in their vector, by an entry of the same neuron
HeadEntries(gid) ==
  {p \in PrimaryConnections(gid) :
     /\ ~SourceAt(p).disabled
     /\ (p[3] > 0 => sources_[p[1]][p[2] + 1][p[3]].gid # gid)}

MarkedBy(p) == h_marked[p[1]][p[2] + 1][p[3] + 1]

\* the entries for which the construction returns a TargetData whatever the
\* order of the threads: not disabled and not preceded by an entry of the
\* same source
EmittingEntries ==
  {p \in Positions(sources_) :
     /\ ~SourceAt(p).disabled
     /\ (p[3] > 0 => sources_[p[1]][p[2] + 1][p[3]].gid # SourceAt(p).gid)}

\* C12: with the threads calling get_next_target_data in any interleaving,
\* their rank ranges disjoint and covering all ranks, an entry is marked
\* processed at most once and only by the thread whose range holds the rank
\* of its source, no TargetData is returned twice, and once every thread is
\* done every non-disabled entry is marked exactly once, no disabled one is
\* marked, and the set of TargetData returned is the one fixed by the table
\* alone.
C12_DisjointRanges ==
  /\ \A p \in Positions(sources_) :
       /\ Len(MarkedBy(p)) <= 1
       /\ SourceAt(p).processed <=> Len(MarkedBy(p)) = 1
       /\ \A i \in 1..Len(MarkedBy(p)) :
            /\ rank_start(MarkedBy(p)[i]) <= get_process_id_of_gid(SourceAt(p).gid)
            /\ get_process_id_of_gid(SourceAt(p).gid) < rank_end(MarkedBy(p)[i])
  /\ Cardinality({td.at : td \in Range(AllTargetData)}) = Len(AllTargetData)
  /\ BuildFinished =>
       /\ \A p \in Positions(sources_) :
            Len(MarkedBy(p)) = IF SourceAt(p).disabled THEN 0 ELSE 1
       /\ Range(AllTargetData) =
            {NextTargetData([tid |-> p[1], syn_index |-> p[2], lcid |-> p[3]],
                            SourceAt(p)) : p \in EmittingEntries}

\* both threads are done, each has returned TargetData, and one vector
\* holds neighbouring entries marked by different threads
C12_Witness ==
  /\ BuildFinished
  /\ \A t \in Threads : Len(target_data[t]) > 0
  /\ \E p \in Positions(sources_) :
       /\ p[3] > 0
       /\ MarkedBy(p) = <<0>>
       /\ MarkedBy(<<p[1], p[2], p[3] - 1>>) = <<1>>

\* C13: a send from (tid, syn_index, lcid) with the flags the construction
\* has set delivers the event once to each of lcid, lcid+1, .., lcid+k in
\* ascending order, k the smallest offset whose flag is false, and never
\* indexes past the end of the connection vector.
C13_SendWalk ==
  \A n \in 1..Len(h_send) :
    LET c     == h_send[n]
        flags == subsequent_targets[c.tid][c.syn_index + 1]
        k     == Len(c.delivered) - 1
    IN /\ ~c.past_end
       /\ k >= 0
       /\ \A j \in 0..k :
            /\ c.delivered[j + 1] = c.lcid + j
            /\ c.lcid + j < Len(flags)
            /\ flags[c.lcid + j + 1] <=> j < k

\* a send has walked a run of two or more connections up to the last
\* entry of its vector
C13_Witness ==
  /\ Len(h_send) = 1
  /\ Len(h_send[1].delivered) >= 2
  /\ h_send[1].lcid + Len(h_send[1].delivered)
       = Len(subsequent_targets[h_send[1].tid][h_send[1].syn_index + 1])

\* the positions (tid, syn_index, lcid) at which a TargetData was returned
EmittedAt == {td.at : td \in Range(AllTargetData)}

\* the entry at p is reached by the send walk that starts at lcid l0 of its
\* vector: the entries l0..lcid hold one source GID and the flag
\* has_subsequent_same_source is true on l0..lcid-1
CoveredFrom(p, l0) ==
  LET vec   == sources_[p[1]][p[2] + 1]
      flags == subsequent_targets[p[1]][p[2] + 1]
  IN /\ l0 <= p[3]
     /\ <<p[1], p[2], l0>> \in EmittedAt
     /\ \A l \in l0..p[3] : vec[l + 1].gid = vec[p[3] + 1].gid
     /\ \A l \in l0..(p[3] - 1) : flags[l + 1]

\* C35: once the construction has finished, every non-disabled entry at
\* (tid, syn_index, lcid) is covered by a returned TargetData, also when
\* other entries of its vector are disabled: a TargetData was returned at
\* some (tid, syn_index, l0), l0 <= lcid, the entries l0..lcid hold the same
\* source GID and has_subsequent_same_source is true on l0..lcid-1.
C35_EveryEntryCovered ==
  BuildFinished =>
    \A p \in Positions(sources_) :
      ~SourceAt(p).disabled => \E l0 \in 0..p[3] : CoveredFrom(p, l0)

\* C35 for tables without disabled entries
C35_CoveredWithoutDisabled ==
  (BuildFinished /\ \A p \in Positions(sources_) : ~SourceAt(p).disabled) =>
    \A p \in Positions(sources_) : \E l0 \in 0..p[3] : CoveredFrom(p, l0)

(***************************************************************************)
(* SourceTable::clean                                                       *)
(***************************************************************************)
\* SourceTablePosition, operator<: lexicographic on (tid, syn_index, lcid)
position_less(a, b) ==
  \/ a.tid < b.tid
  \/ a.tid = b.tid /\ a.syn_index < b.syn_index
  \/ a.tid = b.tid /\ a.syn_index = b.syn_index /\ a.lcid < b.lcid

\* SourceTable::find_maximal_position: the largest saved position
RECURSIVE find_maximal_position(_, _)
find_maximal_position(tid, max_position) ==
  IF tid >= NumThreads THEN max_position
  ELSE find_maximal_position(tid + 1,
         IF position_less(max_position, saved_positions_[tid])
           THEN saved_positions_[tid] ELSE max_position)

\* clean erasing the vector of the maximal position from its lcid on
clean_from_max_lcid(src, tid, max_position) ==
  IF max_position.tid = tid
    THEN [src EXCEPT ![tid] =
            [syn \in 1..Len(src[tid]) |->
               IF max_position.syn_index < 0 \/ syn - 1 < max_position.syn_index
                 THEN src[tid][syn]
               ELSE IF syn - 1 = max_position.syn_index
                 THEN IF max_position.lcid < Len(src[tid][syn])
                        THEN SubSeq(src[tid][syn], 1, max_position.lcid)
                        ELSE src[tid][syn]
               ELSE <<>>]]
  ELSE IF max_position.tid < tid
    THEN [src EXCEPT ![tid] = [syn \in 1..Len(src[tid]) |-> <<>>]]
  ELSE src

\* SourceTable::clean( tid ) on the table src: in the thread of the maximal
\* position the vector of that position loses its entries above lcid and
\* the vectors after it lose all entries (a syn_index of -1 is the largest
\* synindex, so no vector is visited); in the threads above all vectors
\* lose all entries; the threads below are left alone
clean(src, tid, max_position) ==
  IF max_position.tid = tid
    THEN [src EXCEPT ![tid] =
            [syn \in 1..Len(src[tid]) |->
               IF max_position.syn_index < 0 \/ syn - 1 < max_position.syn_index
                 THEN src[tid][syn]
               ELSE IF syn - 1 = max_position.syn_index
                 THEN IF max_position.lcid + 1 < Len(src[tid][syn])
                        THEN SubSeq(src[tid][syn], 1, max_position.lcid + 1)
                        ELSE src[tid][syn]
               ELSE <<>>]]
  ELSE IF max_position.tid < tid
    THEN [src EXCEPT ![tid] = [syn \in 1..Len(src[tid]) |-> <<>>]]
  ELSE src

\* thread tid calls SourceTable::clean( tid )
Clean(tid) ==
  /\ UNCHANGED <<schedVars, delayVars, exchangeVars, kernelVars, connectVars,
                 modelVars,
    packedVars, otherVars>>
  /\ sources_' = clean(sources_, tid,
                       find_maximal_position(0, [tid |-> -1, syn_index |-> -1,
                                                 lcid |-> -1]))
  /\ clean_request' = [op |-> "clean", tid |-> tid, before |-> sources_]
  /\ UNCHANGED <<last_sorted_source_, current_positions_, subsequent_targets,
                 target_data, build_done, targets_, target_table_built,
                 h_marked, h_send, saved_positions_>>

\* the positions of the table src as SourceTablePosition
SavedPositions(src) ==
  {[tid |-> p[1], syn_index |-> p[2], lcid |-> p[3]] : p \in Positions(src)}
    \cup {[tid |-> -1, syn_index |-> -1, lcid |-> -1]}

\* the table after the connection phase; every thread has saved the
\* position of an entry, or none
InitClean ==
  /\ InitSourceTableBuilt
  /\ saved_positions_ \in [Threads -> SavedPositions(sources_)]
  /\ clean_request = [op |-> "none"]

NextClean == \E tid \in Threads : Clean(tid)

SpecClean == InitClean /\ [][NextClean]_vars

\* C27: clean(tid) erases no entry whose position (tid, syn_index, lcid) is
\* at or below the largest saved position of all threads, and every entry
\* it retains keeps its index and its content.
C27_CleanKeepsUnprocessed ==
  clean_request.op = "clean" =>
    LET max_position ==
          find_maximal_position(0, [tid |-> -1, syn_index |-> -1, lcid |-> -1])
        before == clean_request.before
    IN /\ \A p \in Positions(before) :
            ~position_less(max_position,
                           [tid |-> p[1], syn_index |-> p[2], lcid |-> p[3]])
              => /\ p \in Positions(sources_)
                 /\ sources_[p[1]][p[2] + 1][p[3] + 1] = before[p[1]][p[2] + 1][p[3] + 1]
       /\ \A p \in Positions(sources_) :
            /\ p \in Positions(before)
            /\ sources_[p[1]][p[2] + 1][p[3] + 1] = before[p[1]][p[2] + 1][p[3] + 1]

\* the thread of the largest saved position has cleaned: the entry at that
\* position is the last of its vector and entries after it have been erased
C27_Witness ==
  /\ clean_request.op = "clean"
  /\ LET max_position ==
           find_maximal_position(0, [tid |-> -1, syn_index |-> -1, lcid |-> -1])
     IN /\ max_position.tid = clean_request.tid
        /\ max_position.lcid >= 0
        /\ Len(sources_[max_position.tid][max_position.syn_index + 1])
             = max_position.lcid + 1
        /\ Len(clean_request.before[max_position.tid][max_position.syn_index + 1])
             > max_position.lcid + 1
(***************************************************************************)
(* ModelManager::copy_model                                                 *)
(***************************************************************************)
\* the names of models: the two built-in ones and two names no model has
\* at first
ModelNames == {"iaf_neuron", "static_synapse", "copy_a", "copy_b"}
\* the values of the one parameter of a model
ParamValues == {0, 1}

\* modeldict_->lookup( name ) on the models mods: the id, or absent
lookup(mods, name) ==
  IF \E id \in 1..Len(mods) : mods[id].name = name
    THEN CHOOSE id \in 1..Len(mods) : mods[id].name = name
    ELSE absent

\* Model::set_status( params ): the defaults after the dictionary params,
\* which holds a value for the parameter or nothing, has been applied
set_status(defaults, params) ==
  IF params = absent THEN defaults ELSE params

\* ModelManager::set_node_defaults_( model_id, params )
set_node_defaults_(mods, model_id, params) ==
  [mods EXCEPT ![model_id].defaults = set_status(@, params)]

\* ModelManager::set_synapse_defaults_( model_id, params ): the prototype
\* of every thread
set_synapse_defaults_(protos, model_id, params) ==
  [t \in Threads |->
     [protos[t] EXCEPT ![model_id].defaults = set_status(@, params)]]

\* ModelManager::copy_node_model_( old_id, new_name ): the clone is pushed
\* back and gets the next id
copy_node_model_(mods, old_id, new_name) ==
  Append(mods, [name |-> new_name, defaults |-> mods[old_id].defaults])

\* ModelManager::copy_synapse_model_( old_id, new_name ): every thread
\* clones its prototype
copy_synapse_model_(protos, old_id, new_name) ==
  [t \in Threads |->
     Append(protos[t], [name |-> new_name,
                        defaults |-> protos[t][old_id].defaults,
                        syn_id |-> Len(protos[0])])]

\* ModelManager::copy_model( old_name, new_name, params )
CopyModel(old_name, new_name, params) ==
  /\ UNCHANGED <<packedVars, otherVars>>
  /\ UNCHANGED <<schedVars, delayVars, exchangeVars, buildVars, kernelVars,
                 connectVars, cleanVars>>
  /\ mm_request' =
       [op |-> "copy_model", old_name |-> old_name, new_name |-> new_name,
        params |-> params,
        old_defaults |->
          IF lookup(models_, old_name) # absent
            THEN models_[lookup(models_, old_name)].defaults
          ELSE IF lookup(prototypes_[0], old_name) # absent
            THEN prototypes_[0][lookup(prototypes_[0], old_name)].defaults
          ELSE absent]
  /\ IF lookup(models_, new_name) # absent \/ lookup(prototypes_[0], new_name) # absent
       THEN /\ mm_outcome' = "NewModelNameExists"
            /\ UNCHANGED <<models_, prototypes_>>
     ELSE IF lookup(models_, old_name) # absent
       THEN LET old_id == lookup(models_, old_name)
            IN /\ models_' = set_node_defaults_(
                                copy_node_model_(models_, old_id, new_name),
                                old_id, params)
               /\ mm_outcome' = "ok"
               /\ UNCHANGED prototypes_
     ELSE IF lookup(prototypes_[0], old_name) # absent
       THEN LET old_id == lookup(prototypes_[0], old_name)
            IN /\ prototypes_' = set_synapse_defaults_(
                                    copy_synapse_model_(prototypes_, old_id, new_name),
                                    old_id, params)
               /\ mm_outcome' = "ok"
               /\ UNCHANGED models_
     ELSE /\ mm_outcome' = "UnknownModelName"
          /\ UNCHANGED <<models_, prototypes_>>

NextModels ==
  \E old_name, new_name \in ModelNames : \E params \in ParamValues \cup {absent} :
    CopyModel(old_name, new_name, params)

SpecModels == InitKernelSpec /\ [][NextModels]_vars

\* the defaults of the model called name, absent if there is none
DefaultsOf(name) ==
  IF lookup(models_, name) # absent
    THEN models_[lookup(models_, name)].defaults
  ELSE IF lookup(prototypes_[0], name) # absent
    THEN prototypes_[0][lookup(prototypes_[0], name)].defaults
  ELSE absent

\* C28: copy_model(old_name, new_name, params) with an unused new_name
\* registers a clone of the old model under a fresh id, the new model has
\* the defaults of the old model overridden by params, and the defaults of
\* the old model are as before the call.
C28_CopyModel ==
  (mm_request.op = "copy_model" /\ mm_outcome = "ok") =>
    /\ DefaultsOf(mm_request.new_name)
         = set_status(mm_request.old_defaults, mm_request.params)
    /\ DefaultsOf(mm_request.old_name) = mm_request.old_defaults
(***************************************************************************)
(* Packed fields of SpikeData and Target                                   *)
(***************************************************************************)
\* widths of the bit-fields of SpikeData
SpikeData_tid_bits == 10
SpikeData_syn_index_bits == 6
SpikeData_lcid_bits == 25
SpikeData_lag_bits == 6
\* widths of the bit-fields of Target
Target_lcid_bits == 25
Target_rank_bits == 22
Target_tid_bits == 10
Target_syn_index_bits == 6

\* assignment of the unsigned value v to a bit-field of width bits: the low
\* bits are kept
bit_field(v, bits) == v % (2 ^ bits)

\* SpikeData::set
SpikeData_set(tid, syn_index, lcid, lag) ==
  [tid |-> bit_field(tid, SpikeData_tid_bits),
   syn_index |-> bit_field(syn_index, SpikeData_syn_index_bits),
   lcid |-> bit_field(lcid, SpikeData_lcid_bits),
   lag |-> bit_field(lag, SpikeData_lag_bits),
   marker |-> 0]

\* Target::Target( tid, rank, syn_index, lcid )
Target(tid, rank, syn_index, lcid) ==
  [lcid |-> bit_field(lcid, Target_lcid_bits),
   rank |-> bit_field(rank, Target_rank_bits),
   tid |-> bit_field(tid, Target_tid_bits),
   syn_index |-> bit_field(syn_index, Target_syn_index_bits),
   processed |-> FALSE]

\* SourceTable::reserve: the map synapse_ids_[tid] after the call; a synapse
\* type not known yet gets the number of known types as its syn_index
reserve(ids, syn_id) ==
  IF syn_id \in DOMAIN ids THEN ids
  ELSE [i \in DOMAIN ids \cup {syn_id} |->
          IF i = syn_id THEN Cardinality(DOMAIN ids) ELSE ids[i]]

\* SourceTable::reserve( tid, syn_id, count ), called while the network is
\* built, before the first simulation
Reserve(tid, syn_id) ==
  /\ UNCHANGED <<schedVars, delayVars, exchangeVars, buildVars, kernelVars,
                 connectVars, cleanVars, modelVars, otherVars>>
  /\ ~has_been_simulated
  /\ syn_id <= MaxSynId
  /\ synapse_ids_' = [synapse_ids_ EXCEPT ![tid] = reserve(@, syn_id)]
  /\ pk_request' = [op |-> "reserve", syn_id |-> syn_id]
  /\ UNCHANGED <<spike_data, packed_target>>

\* a spike emitted at lag is written for the connections of type syn_id of
\* thread tid, from lcid on: SpikeData::set
SetSpikeData(tid, syn_id, lcid, lag) ==
  /\ UNCHANGED <<schedVars, delayVars, exchangeVars, buildVars, kernelVars,
                 connectVars, cleanVars, modelVars, otherVars>>
  /\ has_been_simulated
  /\ syn_id \in DOMAIN synapse_ids_[tid]
  /\ lag \in 0..(sim_min_delay - 1)
  /\ spike_data' = SpikeData_set(tid, synapse_ids_[tid][syn_id], lcid, lag)
  /\ pk_request' = [op |-> "set", tid |-> tid,
                    syn_index |-> synapse_ids_[tid][syn_id], lcid |-> lcid,
                    lag |-> lag]
  /\ UNCHANGED <<synapse_ids_, packed_target>>

\* the Target of the connection lcid of type syn_id of thread tid on rank,
\* constructed when the target table is built at the first simulation
NewTarget(tid, rank, syn_id, lcid) ==
  /\ UNCHANGED <<schedVars, delayVars, exchangeVars, buildVars, kernelVars,
                 connectVars, cleanVars, modelVars, otherVars>>
  /\ has_been_simulated
  /\ syn_id \in DOMAIN synapse_ids_[tid]
  /\ packed_target' = Target(tid, rank, synapse_ids_[tid][syn_id], lcid)
  /\ pk_request' = [op |-> "target", tid |-> tid, rank |-> rank,
                    syn_index |-> synapse_ids_[tid][syn_id], lcid |-> lcid]
  /\ UNCHANGED <<synapse_ids_, spike_data>>

\* the delays of the connections made: the resolution and the two longest
PackedDelays == {resolution, MaxPackedDelay - 1, MaxPackedDelay}

\* the thread whose SourceTable is filled
PackedThread == 0

\* the synapse ids passed next: the first one and the lowest unknown one
NextSynIds(tid) == {0, Cardinality(DOMAIN synapse_ids_[tid])}

\* the synapse ids of the connections used: the first and the last known
UsedSynIds(tid) == {0, Cardinality(DOMAIN synapse_ids_[tid]) - 1}

NextPacked ==
  \/ CreateNode
  \/ \E d \in PackedDelays : Connect(d)
  \/ DelaySimulate
  \/ \E syn_id \in NextSynIds(PackedThread) : Reserve(PackedThread, syn_id)
  \/ \E syn_id \in UsedSynIds(PackedThread) :
       \E lag \in {0, sim_min_delay - 1} :
         SetSpikeData(PackedThread, syn_id, 0, lag)
  \/ \E syn_id \in UsedSynIds(PackedThread) :
       NewTarget(PackedThread, own_rank, syn_id, 0)

SpecPacked == InitKernelSpec /\ [][NextPacked]_vars

\* C29: the lag and the syn_index passed to SpikeData::set, and the
\* syn_index passed to the Target constructor, are read back from the
\* fields unchanged, for every lag below a min_delay the DelayChecker has
\* admitted and every syn_index assigned by SourceTable::reserve.
C29_NoTruncation ==
  /\ pk_request.op = "set" =>
       /\ spike_data.lag = pk_request.lag
       /\ spike_data.syn_index = pk_request.syn_index
  /\ pk_request.op = "target" =>
       packed_target.syn_index = pk_request.syn_index
(***************************************************************************)
(* sort.h: sorting two vectors by the entries of the first                 *)
(***************************************************************************)
INSERTION_SORT_CUTOFF == 10

\* size_t arithmetic is modular; the modulus of the model is far above every
\* index of the vectors, as 2^64 is
size_t_modulus == 2 ^ 30
size_t(x) == x % size_t_modulus

\* exchange_ losing the element at i
exchange_overwrite(vec, i, j) == [vec EXCEPT ![i + 1] = vec[j + 1]]

\* sort::exchange_
exchange_(vec, i, j) == [vec EXCEPT ![i + 1] = vec[j + 1], ![j + 1] = vec[i + 1]]

\* sort::median3_
median3_(vec, i, j, k) ==
  IF At(vec, i) < At(vec, j)
    THEN (IF At(vec, j) < At(vec, k) THEN j
          ELSE IF At(vec, i) < At(vec, k) THEN k ELSE i)
    ELSE (IF At(vec, k) < At(vec, j) THEN j
          ELSE IF At(vec, k) < At(vec, i) THEN k ELSE i)

RECURSIVE insertion_inner(_, _, _, _)
\* insertion_sort, the loop over j: <<vec_sort, vec_perm>>
insertion_inner(vs, vp, lo, j) ==
  IF j > lo /\ At(vs, j) < At(vs, j - 1)
    THEN insertion_inner(exchange_(vs, j, j - 1), exchange_(vp, j, j - 1),
                         lo, j - 1)
    ELSE <<vs, vp>>

RECURSIVE insertion_outer(_, _, _, _, _)
\* insertion_sort, the loop over i
insertion_outer(vs, vp, lo, hi, i) ==
  IF i < size_t(hi + 1)
    THEN LET r == insertion_inner(vs, vp, lo, i)
         IN insertion_outer(r[1], r[2], lo, hi, i + 1)
    ELSE <<vs, vp>>

\* sort::insertion_sort
insertion_sort(vs, vp, lo, hi) == insertion_outer(vs, vp, lo, hi, lo + 1)

RECURSIVE first_of_equal(_, _, _)
\* quicksort3way, lines 111-114: the first entry of the run of m_val
first_of_equal(vs, m, m_val) ==
  IF m > 0 /\ At(vs, m - 1) = m_val THEN first_of_equal(vs, m - 1, m_val)
  ELSE m

RECURSIVE skip_less(_, _, _)
\* quicksort3way, lines 127-130
skip_less(vs, i, v) == IF At(vs, i) < v THEN skip_less(vs, i + 1, v) ELSE i

RECURSIVE skip_greater(_, _, _)
\* quicksort3way, lines 136-139
skip_greater(vs, gt, v) ==
  IF At(vs, gt) > v THEN skip_greater(vs, gt - 1, v) ELSE gt

RECURSIVE three_way(_, _, _, _, _, _)
\* quicksort3way, lines 141-160: <<vec_sort, vec_perm, lt, gt>>
three_way(vs, vp, lt, i, gt, v) ==
  IF i <= gt
    THEN IF At(vs, i) < v
           THEN three_way(exchange_(vs, lt, i), exchange_(vp, lt, i),
                          lt + 1, i + 1, gt, v)
         ELSE IF At(vs, i) > v
           THEN three_way(exchange_(vs, i, gt), exchange_(vp, i, gt),
                          lt, i, gt - 1, v)
         ELSE three_way(vs, vp, lt, i + 1, gt, v)
    ELSE <<vs, vp, lt, gt>>

RECURSIVE quicksort3way(_, _, _, _)
\* sort::quicksort3way: <<vec_sort, vec_perm>> after the call
quicksort3way(vs, vp, lo, hi) ==
  IF lo >= hi THEN <<vs, vp>>
  ELSE
    LET n == size_t(hi - lo + 1)
    IN IF n <= INSERTION_SORT_CUTOFF THEN insertion_sort(vs, vp, lo, hi)
       ELSE
         LET m0  == median3_(vs, lo, lo + n \div 2, hi)
             m   == first_of_equal(vs, m0, At(vs, m0))
             vs1 == exchange_(vs, m, lo)
             vp1 == exchange_(vp, m, lo)
             v   == At(vs1, lo)
             i   == skip_less(vs1, lo + 1, v)
             vs2 == exchange_(vs1, lo, i - 1)
             vp2 == exchange_(vp1, lo, i - 1)
             gt  == skip_greater(vs2, hi, v)
             p   == three_way(vs2, vp2, i - 1, i, gt, v)
             l   == quicksort3way(p[1], p[2], lo, size_t(p[3] - 1))
         IN quicksort3way(l[1], l[2], p[4] + 1, hi)

\* sort::sort
sort(vs, vp) == quicksort3way(vs, vp, 0, size_t(Len(vs) - 1))

\* the entries of the vectors passed
SortValues == {0, 1, 2}

\* the vectors of length n passed: every vector of the two lowest values,
\* and each of them with one entry replaced by the highest value
SortInputs(n) ==
  LET low == [1..n -> {0, 1}]
  IN low \cup {[b EXCEPT ![k] = 2] : b \in low, k \in 1..n}

\* vec_perm as passed: the entries 0..n-1, all different
Iota(n) == [i \in 1..n |-> i - 1]

\* one call of sort on the vectors vs and Iota(Len(vs))
Sort(vs) ==
  /\ UNCHANGED nonSortVars
  /\ LET r == sort(vs, Iota(Len(vs)))
     IN /\ vec_sort' = r[1]
        /\ vec_perm' = r[2]
  /\ sort_request' = [op |-> "sort", vec_sort |-> vs,
                      vec_perm |-> Iota(Len(vs)), lo |-> 0,
                      hi |-> Len(vs) - 1]

\* one call is followed
NextSort ==
  /\ sort_request.op = "none"
  /\ \E n \in 0..MaxSortLen : \E vs \in SortInputs(n) : Sort(vs)

SpecSort == InitKernelSpec /\ [][NextSort]_vars

\* the number of positions at which the vectors hold the pair p
PairCount(vs, vp, p) ==
  Cardinality({i \in 1..Len(vs) : <<vs[i], vp[i]>> = p})

\* the pairs held by the vectors
Pairs(vs, vp) == {<<vs[i], vp[i]>> : i \in 1..Len(vs)}

\* C31: after sort(vec_sort, vec_perm) on two vectors of equal length
\* (0, 1, above the cutoff of 10, with duplicates) vec_sort is in
\* non-decreasing order and the multiset of pairs (vec_sort[i], vec_perm[i])
\* is the one passed.
C31_SortedPairs ==
  sort_request.op = "sort" =>
    /\ Len(vec_sort) = Len(sort_request.vec_sort)
    /\ Len(vec_perm) = Len(sort_request.vec_perm)
    /\ \A i \in 1..(Len(vec_sort) - 1) : vec_sort[i] <= vec_sort[i + 1]
    /\ \A p \in Pairs(vec_sort, vec_perm)
               \cup Pairs(sort_request.vec_sort, sort_request.vec_perm) :
         PairCount(vec_sort, vec_perm, p)
           = PairCount(sort_request.vec_sort, sort_request.vec_perm, p)

\* a vector longer than the cutoff that holds every value, two of them more
\* than once, and was not sorted has been sorted
C31_Witness ==
  /\ sort_request.op = "sort"
  /\ Len(vec_sort) > INSERTION_SORT_CUTOFF
  /\ sort_request.vec_sort # vec_sort
  /\ \A x \in SortValues : PairCount(vec_sort, vec_sort, <<x, x>>) >= 1
  /\ \A x \in {0, 1} : PairCount(vec_sort, vec_sort, <<x, x>>) >= 2

\* one call of quicksort3way on the vectors vs and Iota(Len(vs))
Quicksort3way(vs, lo, hi) ==
  /\ UNCHANGED nonSortVars
  /\ 0 <= lo /\ lo <= hi /\ hi < Len(vs)
  /\ LET r == quicksort3way(vs, Iota(Len(vs)), lo, hi)
     IN /\ vec_sort' = r[1]
        /\ vec_perm' = r[2]
  /\ sort_request' = [op |-> "quicksort3way", vec_sort |-> vs,
                      vec_perm |-> Iota(Len(vs)), lo |-> lo, hi |-> hi]

\* the ranges passed: they leave out at most one entry at either end
QuickRanges(n) == {0, 1} \X {n - 2, n - 1}

\* one call is followed, on a vector of 0s and 1s
NextQuick ==
  /\ sort_request.op = "none"
  /\ \E n \in 1..(MaxSortLen + 1) :
       \E vs \in [1..n -> {0, 1}] :
         \E r \in QuickRanges(n) : Quicksort3way(vs, r[1], r[2])

SpecQuick == InitKernelSpec /\ [][NextQuick]_vars

\* C40: quicksort3way(vec_sort, vec_perm, lo, hi) with 0 <= lo <= hi < size
\* leaves every element of vec_sort and of vec_perm at an index outside
\* [lo, hi] as it was before the call.
C40_OutsideUnchanged ==
  sort_request.op = "quicksort3way" =>
    \A i \in 1..Len(vec_sort) :
      (i - 1 < sort_request.lo \/ i - 1 > sort_request.hi) =>
        /\ vec_sort[i] = sort_request.vec_sort[i]
        /\ vec_perm[i] = sort_request.vec_perm[i]

(***************************************************************************)
(* The scheduler with the delay extrema of the DelayChecker                *)
(***************************************************************************)
\* the scheduler state besides the extrema of the connection manager
schedStateVars ==
  <<min_delay_, max_delay_, clock_, slice_, to_do_, from_step_, to_step_,
    terminate_, simulated_, moduli_, slice_moduli_, spike_register_,
    local_grid_spikes_, global_grid_spikes_, displacements_,
    send_buffer_size_, pc, ring, h_requested, h_midslice, h_upd, h_dlv, h_gath,
    h_emit, h_flight, h_handed, h_read, h_nspikes, SLIsignalflag,
    exceptions_raised, simulating_, sim_request, sim_outcome, h_phases>>

\* the variables outside the scheduler and the DelayChecker
nonSliceVars ==
  <<exchangeVars, buildVars, kernelVars, connectVars, cleanVars, modelVars,
    packedVars, otherVars>>

\* connection_manager_.get_min_delay() as update_delay_extrema_ uses it: the
\* shortest delay of the DelayChecker, the resolution if there is none
get_min_delay(mn) == IF mn = Time_pos_inf THEN resolution ELSE mn

\* connection_manager_.get_max_delay(): the longest delay of the
\* DelayChecker, the resolution if there is none
get_max_delay(mx) == IF mx = Time_neg_inf THEN resolution ELSE mx

\* a connect between two simulate calls
SlicesConnect(d) ==
  /\ \A th \in Threads : pc[th] = "idle"
  /\ ConnectBody(d)
  /\ cm_min_delay' = get_min_delay(dc_min_delay_')
  /\ cm_max_delay' = get_max_delay(dc_max_delay_')
  /\ UNCHANGED <<schedStateVars, nonSliceVars>>

\* DelayChecker::set_status with both extrema, between two simulate calls
SlicesSetExtrema(min_delay, max_delay) ==
  /\ \A th \in Threads : pc[th] = "idle"
  /\ DelaySetStatusBody(TRUE, TRUE, min_delay, max_delay)
  /\ cm_min_delay' = get_min_delay(dc_min_delay_')
  /\ cm_max_delay' = get_max_delay(dc_max_delay_')
  /\ UNCHANGED <<schedStateVars, nonSliceVars>>

\* Network::simulate(t), seen by the scheduler and by the DelayChecker; the
\* durations of all calls add up to at most MaxSimSteps
SlicesSimulate(t) ==
  /\ h_requested + t <= MaxSimSteps
  /\ SimulateBody(t)
  /\ DelaySimulateBody
  /\ UNCHANGED nonSliceVars

\* Network::set_status with time = 0.0, lines 571-590: the clock, from_step_
\* and slice_ are reset and the spike buffers configured if time has passed
SetStatusTimeZero ==
  /\ \A th \in Threads : pc[th] = "idle"
  /\ IF clock_ > 0
       THEN /\ clock_' = 0
            /\ from_step_' = 0
            /\ slice_' = 0
            /\ spike_register_' = [th \in Threads |-> Fill(min_delay_, <<>>)]
            /\ h_emit' = [th \in Threads |-> <<>>]
            /\ send_buffer_size_' = ConfiguredSendSize(min_delay_)
            /\ local_grid_spikes_' = Fill(ConfiguredSendSize(min_delay_), 0)
            /\ global_grid_spikes_' =
                 Fill(ConfiguredSendSize(min_delay_) * NumProcesses, 0)
            /\ displacements_' = Fill(NumProcesses, 0)
       ELSE UNCHANGED <<clock_, from_step_, slice_, spike_register_, h_emit,
                        send_buffer_size_, local_grid_spikes_,
                        global_grid_spikes_, displacements_>>
  /\ sim_request' = [op |-> "set_status_time"]
  /\ UNCHANGED <<cm_min_delay, cm_max_delay, min_delay_, max_delay_, to_do_,
                 to_step_, terminate_, simulated_, moduli_, slice_moduli_, pc,
                 ring, h_requested, h_midslice, h_upd, h_dlv, h_gath, h_flight,
                 h_handed, h_read, h_nspikes, SLIsignalflag, exceptions_raised,
                 simulating_, sim_outcome, h_phases>>
  /\ UNCHANGED <<delayVars, nonSliceVars>>

\* simulate, connect, set_status of the extrema and of the time in any
\* order; no node spikes or throws
NextSlices ==
  \/ CreateNode
  \/ \E d \in 1..MaxDelaySteps : SlicesConnect(d)
  \/ \E mn \in 1..MaxDelaySteps : SlicesSetExtrema(mn, MaxDelaySteps)
  \/ \E t \in 1..MaxSimSteps : SlicesSimulate(t)
  \/ SetStatusTimeZero
  \/ \E t \in Threads : Deliver(t)
  \/ \E t \in Threads : UpdateNodes(t, 0, {})
  \/ MasterSection
  \/ \E t \in Threads : LoopTest(t)
  \/ SimulateReturn

SpecSlices == InitKernelSpec /\ [][NextSlices]_vars

\* C32: whenever the update loop runs, 0 <= from_step_ <= to_step_ <=
\* min_delay_, after any sequence of simulate, connect, set_status of the
\* delay extrema and set_status(time = 0).
C32_StepsInSlice ==
  (\E th \in Threads : pc[th] # "idle") =>
    /\ 0 <= from_step_
    /\ from_step_ <= to_step_
    /\ to_step_ <= min_delay_
(***************************************************************************)
(* SourceTable::get_next_target_data, one pass of the while loop at a time *)
(***************************************************************************)
\* one pass of while ( true ) of get_next_target_data( t, .. ) from the
\* cursor pos: ret is "continue" where the code continues, "true" or "false"
\* where it returns
iteration(t, pos, src, flg) ==
  IF pos.lcid < 0
    THEN IF pos.syn_index - 1 >= 0
           THEN [ret |-> "continue",
                 pos |-> [pos EXCEPT !.syn_index = pos.syn_index - 1,
                            !.lcid = Len(src[pos.tid][pos.syn_index]) - 1],
                 src |-> src, flg |-> flg, td |-> <<>>]
         ELSE IF pos.tid - 1 >= 0
           THEN LET ntid == pos.tid - 1
                    nsyn == Len(src[ntid]) - 1
                IN [ret |-> "continue",
                    pos |-> [tid |-> ntid, syn_index |-> nsyn,
                             lcid |-> IF nsyn >= 0
                                        THEN Len(src[ntid][nsyn + 1]) - 1
                                        ELSE pos.lcid],
                    src |-> src, flg |-> flg, td |-> <<>>]
         ELSE [ret |-> "false",
               pos |-> [pos EXCEPT !.syn_index = pos.syn_index - 1,
                                   !.tid = pos.tid - 1],
               src |-> src, flg |-> flg, td |-> <<>>]
  ELSE
    LET vec    == src[pos.tid][pos.syn_index + 1]
        sorted == last_sorted_source_[pos.tid][pos.syn_index + 1]
        cur    == vec[pos.lcid + 1]
        down   == [pos EXCEPT !.lcid = pos.lcid - 1]
    IN IF behind_last_sorted(pos.lcid, sorted, Len(vec))
         THEN [ret |-> "false", pos |-> pos, src |-> src, flg |-> flg,
               td |-> <<>>]
       ELSE IF cur.processed \/ cur.disabled
         THEN [ret |-> "continue", pos |-> down, src |-> src, flg |-> flg,
               td |-> <<>>]
       ELSE IF outside_rank_range(t, get_process_id_of_gid(cur.gid))
         THEN [ret |-> "continue", pos |-> down, src |-> src, flg |-> flg,
               td |-> <<>>]
       ELSE
         LET src2 == [src EXCEPT
                        ![pos.tid][pos.syn_index + 1][pos.lcid + 1].processed = TRUE]
             flg2 == set_has_source_subsequent_targets(flg, pos.tid,
                       pos.syn_index, pos.lcid,
                       next_has_same_source(vec, pos.lcid, cur.gid))
         IN IF pos.lcid - 1 > -1 /\ vec[pos.lcid].gid = cur.gid
               /\ ~vec[pos.lcid].processed
              THEN [ret |-> "continue", pos |-> down, src |-> src2,
                    flg |-> flg2, td |-> <<>>]
              ELSE [ret |-> "true", pos |-> down, src |-> src2, flg |-> flg2,
                    td |-> <<NextTargetData(pos, cur)>>]

\* the passes of the loop up to the return
RECURSIVE iterations(_, _, _, _)
iterations(t, pos, src, flg) ==
  LET r == iteration(t, pos, src, flg)
  IN IF r.ret = "continue" THEN iterations(t, r.pos, r.src, r.flg)
     ELSE [r EXCEPT !.ret = (r.ret = "true")]

\* the passes of the loop make up the call
IterationsMakeTheCall ==
  \A t \in Threads :
    gntd_pc[t] = "idle" /\ current_positions_[t].tid >= -1 =>
      iterations(t, current_positions_[t], sources_, subsequent_targets)
        = get_next_target_data(t, current_positions_[t], sources_,
                               subsequent_targets)

\* thread t enters get_next_target_data
CallGetNextTargetData(t) ==
  /\ gntd_pc[t] = "idle"
  /\ current_positions_[t].tid >= -MaxFurtherCalls
  /\ gntd_pc' = [gntd_pc EXCEPT ![t] = "loop"]
  /\ h_ret' = [h_ret EXCEPT ![t] = "none"]
  /\ UNCHANGED <<kernelAllVars, cursorFrameVars>>

\* thread t makes one pass of the loop
LoopIteration(t) ==
  /\ gntd_pc[t] = "loop"
  /\ LET r == iteration(t, current_positions_[t], sources_, subsequent_targets)
     IN /\ current_positions_' = [current_positions_ EXCEPT ![t] = r.pos]
        /\ sources_' = r.src
        /\ subsequent_targets' = r.flg
        /\ target_data' = [target_data EXCEPT ![t] = @ \o r.td]
        /\ build_done' = [build_done EXCEPT ![t] = r.ret = "false"]
        /\ gntd_pc' = [gntd_pc EXCEPT
                         ![t] = IF r.ret = "continue" THEN "loop" ELSE "idle"]
        /\ h_ret' = [h_ret EXCEPT ![t] = r.ret]
  /\ UNCHANGED <<last_sorted_source_, targets_, target_table_built, h_marked,
                 h_send>>
  /\ UNCHANGED <<schedVars, delayVars, exchangeVars, kernelVars, connectVars,
                 cleanVars, modelVars, packedVars, cursorFrameVars>>

\* the vectors were sorted when they held one or two entries: a longer
\* vector has unsorted entries at its end
SortedLengths == {1, 2}

InitCursor ==
  /\ InitSourceTableSortedTo(SortedLengths)
  /\ saved_positions_ =
       [t \in Threads |-> [tid |-> -1, syn_index |-> -1, lcid |-> -1]]
  /\ clean_request = [op |-> "none"]

NextCursor ==
  \/ \E t \in Threads : CallGetNextTargetData(t)
  \/ \E t \in Threads : LoopIteration(t)

SpecCursor == InitCursor /\ [][NextCursor]_vars

\* a thread inside the loop makes its next pass
FairCursor == \A t \in Threads : WF_vars(LoopIteration(t))
SpecCursorFair == SpecCursor /\ FairCursor
\* the cursor has left the table: get_next_target_data, lines 79-81
Exhausted(pos) == pos.tid < 0 /\ pos.syn_index < 0 /\ pos.lcid < 0

\* the cursor is in the table src: on an entry, or just below the first
\* entry of a vector
InTable(pos, src) ==
  /\ pos.tid \in Threads
  /\ pos.syn_index >= -1
  /\ pos.syn_index < Len(src[pos.tid])
  /\ pos.lcid >= -1
  /\ pos.syn_index >= 0 => pos.lcid < Len(src[pos.tid][pos.syn_index + 1])
  /\ pos.syn_index < 0 => pos.lcid < 0

\* the cursor stands on the last entry below last_sorted_source_ of a vector
\* with unsorted entries at its end
AtUnsortedTail(pos) ==
  /\ InTable(pos, sources_)
  /\ pos.syn_index >= 0
  /\ pos.lcid = last_sorted_source_[pos.tid][pos.syn_index + 1] - 1
  /\ last_sorted_source_[pos.tid][pos.syn_index + 1]
       < Len(sources_[pos.tid][pos.syn_index + 1])

\* thread t makes a pass of the loop in this step
PassOf(t) == gntd_pc[t] = "loop" /\ h_ret'[t] # h_ret[t]

\* C36: every call of get_next_target_data returns; from pass to pass and
\* from call to call the cursor (tid, syn_index, lcid) of a thread never
\* increases lexicographically and is in the table or exhausted; a call
\* returns false only with the cursor exhausted (tid, syn_index and lcid
\* negative) or at the boundary of the unsorted tail of a vector; a call
\* that finds the cursor exhausted returns false in its first pass and
\* leaves the entries, the flags and the TargetData as they are.
C36_CursorWalk ==
  /\ \A t \in Threads : (gntd_pc[t] = "loop") ~> (gntd_pc[t] = "idle")
  /\ [][\A t \in Threads :
          ~position_less(current_positions_[t], current_positions_'[t])]_vars
  /\ [](\A t \in Threads :
          \/ Exhausted(current_positions_[t])
          \/ InTable(current_positions_[t], sources_))
  /\ [](\A t \in Threads :
          (gntd_pc[t] = "idle" /\ h_ret[t] = "false") =>
             \/ Exhausted(current_positions_[t])
             \/ AtUnsortedTail(current_positions_[t]))
  /\ [][\A t \in Threads :
          (Exhausted(current_positions_[t]) /\ PassOf(t)) =>
             /\ h_ret'[t] = "false"
             /\ UNCHANGED <<sources_, subsequent_targets, target_data>>]_vars

\* a thread has returned TargetData, then false at the end of the table,
\* and false again in two further calls, while the other thread has not
\* left the table
C36_Witness ==
  \E t \in Threads :
    /\ gntd_pc[t] = "idle"
    /\ h_ret[t] = "false"
    /\ Len(target_data[t]) > 0
    /\ current_positions_[t].tid = -1 - MaxFurtherCalls
    /\ \E u \in Threads : InTable(current_positions_[u], sources_)
(***************************************************************************)
(* ModelManager::register_synapse_prototype, copy_synapse_model_ and init  *)
(***************************************************************************)
\* the id no synapse type has; the syn_id of a prototype nobody has set
invalid_synindex == 255
\* largest number of prototypes of a thread
MaxPrototypes == 4
\* the names of the synapse types registered
PrototypeNames == {"static_synapse", "stdp_synapse", "gap_junction"}

\* ConnectorModel::set_syn_id on the element at index id of the vector protos
set_syn_id(protos, id) == [protos EXCEPT ![id + 1].syn_id = id]

\* register_synapse_prototype, lines 304-305: the id is the size of
\* prototypes_[ 0 ] and indexes pristine_prototypes_
set_pristine_syn_id(pristine, id) == set_syn_id(pristine, id)

\* ModelManager::register_synapse_prototype( cf ), cf of the given name and
\* with no id yet. Where the id is not an index of pristine_prototypes_ the
\* access at line 305 is undefined: the call may end there, or write
\* somewhere else and go on.
RegisterSynapsePrototype(name) ==
  /\ UNCHANGED <<schedVars, delayVars, exchangeVars, buildVars, kernelVars,
                 connectVars, cleanVars, packedVars, sortVars, cursorVars,
                 randVars, bufVars>>
  /\ Len(prototypes_[0]) < MaxPrototypes
  /\ LET cf       == [name |-> name, defaults |-> 0, syn_id |-> invalid_synindex]
         id       == Len(prototypes_[0])
         pristine == Append(pristine_prototypes_, cf)
         cloned   == [t \in Threads |->
                        set_syn_id(Append(prototypes_[t], cf), id)]
     IN /\ mm_request' = [op |-> "register_synapse_prototype", name |-> name,
                          id |-> id, pristine_size |-> Len(pristine)]
        /\ UNCHANGED models_
        /\ IF lookup(prototypes_[0], name) # absent
             THEN /\ mm_outcome' = "NamingConflict"
                  /\ UNCHANGED <<prototypes_, pristine_prototypes_>>
           ELSE IF id < Len(pristine)
             THEN /\ pristine_prototypes_' = set_pristine_syn_id(pristine, id)
                  /\ prototypes_' = cloned
                  /\ mm_outcome' = "ok"
           ELSE \/ /\ pristine_prototypes_' = pristine
                   /\ UNCHANGED prototypes_
                   /\ mm_outcome' = "crash"
                \/ /\ pristine_prototypes_' = pristine
                   /\ prototypes_' = cloned
                   /\ mm_outcome' = "ok"

\* ModelManager::init, after a reset of the kernel: the models and the
\* prototypes of every thread are cloned from the pristine ones
ModelManagerInit ==
  /\ UNCHANGED <<schedVars, delayVars, exchangeVars, buildVars, kernelVars,
                 connectVars, cleanVars, packedVars, sortVars, cursorVars,
                 randVars, bufVars>>
  /\ mm_outcome # "crash"
  /\ models_' = <<[name |-> "iaf_neuron", defaults |-> 0]>>
  /\ prototypes_' = [t \in Threads |-> pristine_prototypes_]
  /\ mm_request' = [op |-> "init"]
  /\ mm_outcome' = "ok"
  /\ UNCHANGED pristine_prototypes_

NextPrototypes ==
  \/ /\ mm_outcome # "crash"
     /\ \E name \in PrototypeNames : RegisterSynapsePrototype(name)
  \/ /\ mm_outcome # "crash"
     /\ Len(prototypes_[0]) < MaxPrototypes
     /\ \E old_name, new_name \in ModelNames :
          \E params \in ParamValues \cup {absent} :
            CopyModel(old_name, new_name, params)
  \/ ModelManagerInit

SpecPrototypes == InitKernelSpec /\ [][NextPrototypes]_vars

\* C37: after any sequence of register_synapse_prototype and copy_model
\* calls the prototype lists of all threads have the same length, the
\* prototype at index id of every thread has syn_id = id, and
\* register_synapse_prototype has set the new id on the prototype it has
\* just appended to pristine_prototypes_: the index it used is within
\* pristine_prototypes_ and is the one of that prototype.
C37_PrototypeIds ==
  /\ \A t \in Threads :
       /\ Len(prototypes_[t]) = Len(prototypes_[0])
       /\ \A i \in 1..Len(prototypes_[t]) : prototypes_[t][i].syn_id = i - 1
  /\ (mm_request.op = "register_synapse_prototype"
        /\ mm_outcome # "NamingConflict") =>
       /\ mm_request.id < mm_request.pristine_size
       /\ mm_request.id = mm_request.pristine_size - 1
       /\ pristine_prototypes_[mm_request.pristine_size].syn_id = mm_request.id
(***************************************************************************)
(* Network::random_divergent_connect and random_convergent_connect         *)
(***************************************************************************)
\* the condition of the do-while loop, lines 1335-1336 and 1618-1619: the
\* index drawn is rejected
redraw(ids, node_id, allow_multapses, allow_autapses, chosen, t_id) ==
  \/ ~allow_autapses /\ ids[t_id + 1] = node_id
  \/ ~allow_multapses /\ t_id \in chosen

\* the connections the call hands to divergent_connect or
\* convergent_connect
random_pairs(op, node_id, nodes) ==
  [i \in 1..Len(nodes) |->
     IF op = "random_divergent_connect" THEN <<node_id, nodes[i]>>
     ELSE <<nodes[i], node_id>>]

\* the end of the call: divergent_connect( source_id, chosen_targets, .. )
\* or convergent_connect( chosen_sources, target_id, .. ), every connection
\* created
RandomConnectDone(op, node_id, nodes) ==
  /\ rnd_pc' = "done"
  /\ bulk_connections' = bulk_connections \o random_pairs(op, node_id, nodes)
  /\ bulk_created' = random_pairs(op, node_id, nodes)
  /\ bulk_warnings' = 0
  /\ bulk_outcome' = "ok"
  /\ bulk_request' = [op |-> op, node |-> node_id, nodes |-> nodes]

\* random_divergent_connect( node_id, ids, n, .. ) on a source that is no
\* subnet, or random_convergent_connect( ids, node_id, n, .. ) on a local
\* target that is no subnet, up to the first draw
RandomConnect(op, node_id, ids, n, allow_multapses, allow_autapses) ==
  /\ rnd_pc = "idle"
  /\ rnd_request' = [op |-> op, node_id |-> node_id, ids |-> ids, n |-> n,
                     allow_multapses |-> allow_multapses,
                     allow_autapses |-> allow_autapses]
  /\ rnd_j' = 0
  /\ ch_ids' = {}
  /\ chosen_' = <<>>
  /\ rnd_last' = <<-1, 0>>
  /\ IF 0 < n
       THEN /\ rnd_pc' = "draw"
            /\ UNCHANGED connectVars
       ELSE RandomConnectDone(op, node_id, <<>>)
  /\ UNCHANGED <<schedVars, delayVars, exchangeVars, buildVars, kernelVars,
                 cleanVars, modelVars, packedVars, sortVars, cursorVars,
                 protoVars, bufVars>>

\* one pass of the do-while loop: rng->ulrand( n_rnd ) returns t_id; a
\* rejected index is drawn again, an accepted one is pushed back and ends
\* the pass of the for loop, the last one the call
Draw(t_id) ==
  /\ rnd_pc = "draw"
  /\ t_id \in 0..(Len(rnd_request.ids) - 1)
  /\ rnd_last' = <<t_id, 1 - rnd_last[2]>>
  /\ UNCHANGED rnd_request
  /\ IF redraw(rnd_request.ids, rnd_request.node_id,
               rnd_request.allow_multapses, rnd_request.allow_autapses,
               ch_ids, t_id)
       THEN UNCHANGED <<rnd_pc, rnd_j, ch_ids, chosen_, connectVars>>
       ELSE /\ ch_ids' = IF rnd_request.allow_multapses THEN ch_ids
                         ELSE ch_ids \cup {t_id}
            /\ chosen_' = Append(chosen_, rnd_request.ids[t_id + 1])
            /\ rnd_j' = rnd_j + 1
            /\ IF rnd_j + 1 < rnd_request.n
                 THEN UNCHANGED <<rnd_pc, connectVars>>
                 ELSE RandomConnectDone(rnd_request.op, rnd_request.node_id,
                                        Append(chosen_, rnd_request.ids[t_id + 1]))
  /\ UNCHANGED <<schedVars, delayVars, exchangeVars, buildVars, kernelVars,
                 cleanVars, modelVars, packedVars, sortVars, cursorVars,
                 protoVars, bufVars>>

\* the two functions
RandomOps == {"random_divergent_connect", "random_convergent_connect"}

\* the lists of candidates: target_ids or source_ids, not empty
CandidateLists == UNION {[1..k -> BulkGids] : k \in 1..MaxCandidates}

NextRandom ==
  \/ /\ rnd_pc = "idle"
     /\ \E op \in RandomOps : \E node_id \in BulkGids :
          \E ids \in CandidateLists : \E n \in 0..MaxDraws :
            \E allow_multapses, allow_autapses \in BOOLEAN :
              RandomConnect(op, node_id, ids, n, allow_multapses, allow_autapses)
  \/ \E t_id \in 0..(MaxCandidates - 1) : Draw(t_id)

SpecRandom == InitKernelSpec /\ [][NextRandom]_vars

\* fair draws: an index of the list that could be drawn again and again is
\* drawn in the end
FairDraws == \A t_id \in 0..(MaxCandidates - 1) : SF_vars(Draw(t_id))
SpecRandomFair == SpecRandom /\ FairDraws

\* the indices of the list the autapse rule admits
Admissible ==
  {t_id \in 0..(Len(rnd_request.ids) - 1) :
     rnd_request.allow_autapses
       \/ rnd_request.ids[t_id + 1] # rnd_request.node_id}

\* C38: random_divergent_connect and random_convergent_connect return for
\* every n, every list of candidates and every combination of
\* allow_autapses and allow_multapses: with fair draws the loop that
\* rejects autapses and indices already chosen ends.
C38_RandomConnectReturns == (rnd_pc = "draw") ~> (rnd_pc = "done")

\* the calls that return: an index the autapse rule admits is there, and
\* with multapses disallowed n is not above the number of such indices
C38_ReturnsWithEnoughCandidates ==
  (/\ rnd_pc = "draw"
   /\ Admissible # {}
   /\ rnd_request.allow_multapses \/ rnd_request.n <= Cardinality(Admissible))
    ~> (rnd_pc = "done")
(***************************************************************************)
(* SourceTable::compute_buffer_pos_for_unique_secondary_sources            *)
(***************************************************************************)
\* the synapse types: 0 is primary, 1 and 2 are secondary
SynTypes == {0, 1, 2}
\* ConnectorModel::is_primary of the prototype of the type syn_id
syn_is_primary(syn_id) == syn_id = 0
\* prototype_size() of the secondary event of the type syn_id
prototype_size(syn_id) == syn_id
\* the GIDs of the sources of the table read
SecondaryGids == {1, 2, 3}

\* the positions (tid, syn_index, i) of the sources of the table src, where
\* src[tid][syn_index + 1] is a vector with its type syn_id and the GIDs
SecondaryEntries(src) ==
  {e \in Threads \X (0..1) \X (1..(MaxSecondarySources + 1)) :
     /\ e[2] < Len(src[e[1]])
     /\ e[3] <= Len(src[e[1]][e[2] + 1].gids)
     /\ ~syn_is_primary(src[e[1]][e[2] + 1].syn_id)}

\* lines 228-259: the pairs (gid, event_size) of the sources of all vectors
\* of secondary types, of all threads
unique_secondary_sources(src) ==
  {<<src[e[1]][e[2] + 1].gids[e[3]],
     prototype_size(src[e[1]][e[2] + 1].syn_id)>> : e \in SecondaryEntries(src)}

\* the order of std::set< std::pair< index, size_t > >
pair_less(p, q) == p[1] < q[1] \/ (p[1] = q[1] /\ p[2] < q[2])

\* the elements of the set S from cbegin() to cend()
RECURSIVE in_order(_)
in_order(S) ==
  IF S = {} THEN <<>>
  ELSE LET first == CHOOSE p \in S : \A q \in S \ {p} : pair_less(p, q)
       IN <<first>> \o in_order(S \ {first})

\* lines 263-271: the event sizes of the pairs summed per owning rank
RECURSIVE count_per_rank(_, _)
count_per_rank(pairs, counts) ==
  IF pairs = <<>> THEN counts
  ELSE count_per_rank(Tail(pairs),
         [counts EXCEPT ![get_process_id_of_gid(Head(pairs)[1])]
                          = @ + Head(pairs)[2]])

\* std::max_element over the ranks
max_element(counts) ==
  CHOOSE m \in {counts[r] : r \in Ranks} : \A r \in Ranks : counts[r] <= m

\* line 278 without the extra element
secondary_buffer_chunk_size_exact(max_count) == max_count

\* line 278: the chunk is one element larger than the largest count
secondary_buffer_chunk_size(max_count) == max_count + 1

\* std::map::insert: a key that is there keeps its value
map_insert(map, key, value) ==
  IF key \in DOMAIN map THEN map
  ELSE [k \in DOMAIN map \cup {key} |-> IF k = key THEN value ELSE map[k]]

\* lines 291-297: every pair gets the position of its rank, which advances
\* by the event size
RECURSIVE fill_positions(_, _, _)
fill_positions(pairs, buffer_position_by_rank, map) ==
  IF pairs = <<>> THEN map
  ELSE LET gid         == Head(pairs)[1]
           target_rank == get_process_id_of_gid(gid)
       IN fill_positions(Tail(pairs),
            [buffer_position_by_rank EXCEPT ![target_rank] = @ + Head(pairs)[2]],
            map_insert(map, gid, buffer_position_by_rank[target_rank]))

\* compute_buffer_pos_for_unique_secondary_sources( gid_to_buffer_pos ) on
\* the table src and an empty map; other_max is the largest count of the
\* other processes, which communicate_Allreduce_max_in_place brings in
ComputeBufferPos(src, other_max) ==
  /\ UNCHANGED <<kernelAllVars, sortVars, cursorVars, protoVars, randVars>>
  /\ LET pairs     == in_order(unique_secondary_sources(src))
         counts    == count_per_rank(pairs, [r \in Ranks |-> 0])
         max_count == Max(max_element(counts), other_max)
         chunk     == secondary_buffer_chunk_size(max_count)
     IN /\ chunk_size_secondary_events' = chunk
        /\ gid_to_buffer_pos' =
             fill_positions(pairs, [r \in Ranks |-> r * chunk], <<>>)
        /\ buf_request' = [op |-> "compute_buffer_pos", sources |-> src,
                           pairs |-> unique_secondary_sources(src),
                           counts |-> counts, max_count |-> max_count]

\* the vectors of sources of one synapse type
SecondaryVectors ==
  [syn_id : SynTypes,
   gids : UNION {[1..k -> SecondaryGids] : k \in 0..MaxSecondarySources}]

\* the counts the other processes report: nothing, or more than this one
OtherCounts == {0, MaxOtherCount}

\* one call is followed; every thread holds one vector
NextBufferPos ==
  /\ buf_request.op = "none"
  /\ \E v0, v1 \in SecondaryVectors : \E other_max \in OtherCounts :
       ComputeBufferPos([tid \in Threads |-> IF tid = 0 THEN <<v0>> ELSE <<v1>>],
                        other_max)

SpecBufferPos == InitKernelSpec /\ [][NextBufferPos]_vars

\* the range of the buffer the events of the pair p = <<gid, event_size>>
\* take
BufferFrom(p) == gid_to_buffer_pos[p[1]]
BufferTo(p) == gid_to_buffer_pos[p[1]] + p[2]

\* C39: every GID of a secondary source gets a buffer position in the
\* chunk of its owning rank r, [pos, pos + event_size) lies in
\* [r * chunk, (r + 1) * chunk - 1), the chunk is one more than the largest
\* total event size of a rank (on any process), and the ranges of
\* different GIDs do not overlap.
C39_BufferPositions ==
  buf_request.op = "compute_buffer_pos" =>
    LET chunk == chunk_size_secondary_events
    IN /\ chunk = 1 + buf_request.max_count
       /\ \A r \in Ranks : buf_request.counts[r] <= buf_request.max_count
       /\ DOMAIN gid_to_buffer_pos = {p[1] : p \in buf_request.pairs}
       /\ \A p \in buf_request.pairs :
            LET r == get_process_id_of_gid(p[1])
            IN /\ r * chunk <= BufferFrom(p)
               /\ BufferTo(p) <= (r + 1) * chunk - 1
       /\ \A p, q \in buf_request.pairs :
            p[1] # q[1] => BufferTo(p) <= BufferFrom(q) \/ BufferTo(q) <= BufferFrom(p)

\* two GIDs of one rank have got positions, one of them with events of two
\* sizes, and the rank fills its chunk up to the last element but one
C39_Witness ==
  /\ buf_request.op = "compute_buffer_pos"
  /\ \E p, q, u \in buf_request.pairs :
       /\ p[1] = q[1] /\ p[2] < q[2]
       /\ u[1] # p[1]
       /\ get_process_id_of_gid(u[1]) = get_process_id_of_gid(p[1])
       /\ BufferFrom(p) < BufferFrom(u)
       /\ BufferTo(u) = (get_process_id_of_gid(u[1]) + 1)
                          * chunk_size_secondary_events - 1
====
